---------------------------- MODULE Spec2Model ----------------------------
(***************************************************************************)
(* A model of twitter2's OAuth 1.0a request signing                        *)
(* (twitter2/src/auth/oauth10a.rs) and of the request types it signs       *)
(* (twitter2/src/client.rs, twitter2/src/request_data.rs).                 *)
(*                                                                         *)
(* A Rust str is modelled as the sequence of its UTF-8 bytes (numbers      *)
(* 0..255): "a&b" is <<97, 38, 98>>.  Every string literal of the source   *)
(* is written as that sequence with the text beside it.                    *)
(***************************************************************************)
EXTENDS Integers, Sequences, FiniteSets, TLC

(***************************************************************************)
(* Strings                                                                 *)
(***************************************************************************)

Range(s) == {s[i] : i \in 1..Len(s)}

\* str::find(char): the 1-based index of the first occurrence of byte b in
\* s, or 0 for None.
Find(s, b) ==
    IF \E i \in 1..Len(s) : s[i] = b
    THEN CHOOSE i \in 1..Len(s) : s[i] = b /\ \A j \in 1..(i - 1) : s[j] # b
    ELSE 0

\* <str as Ord>::cmp is byte-wise lexicographic: a < b.
StrLess(a, b) ==
    \E i \in 1..(Len(a) + 1) :
        /\ i <= Len(b)
        /\ \A j \in 1..(i - 1) : a[j] = b[j]
        /\ (i = Len(a) + 1 \/ a[i] < b[i])

\* The order of (Cow<str>, Cow<str>) tuples in the BTreeSet: by the first
\* component, then by the second.
PairLess(p, q) == StrLess(p[1], q[1]) \/ (p[1] = q[1] /\ StrLess(p[2], q[2]))

\* The concatenation of the strings ss[lo], ..., ss[hi].
RECURSIVE ConcatRange(_, _, _)
ConcatRange(ss, lo, hi) ==
    IF lo > hi THEN <<>>
    ELSE IF lo = hi THEN ss[lo]
    ELSE LET mid == (lo + hi) \div 2
         IN  ConcatRange(ss, lo, mid) \o ConcatRange(ss, mid + 1, hi)

Concat(ss) == ConcatRange(ss, 1, Len(ss))

\* i64::to_string: the decimal digits, with a leading '-' below zero.
RECURSIVE Digits(_)
Digits(n) == IF n < 10 THEN <<48 + n>> ELSE Append(Digits(n \div 10), 48 + (n % 10))
I64ToString(n) == IF n < 0 THEN <<45>> \o Digits(0 - n) ELSE Digits(n)

(***************************************************************************)
(* Percent-encoding (libshire::encoding::url::percent_encode): the bytes   *)
(* A-Z a-z 0-9 - . _ ~ stand for themselves, every other byte becomes '%'  *)
(* and its two upper-case hexadecimal digits.                              *)
(***************************************************************************)

IsAlphanumeric(b) ==
    \/ (48 <= b /\ b <= 57)
    \/ (65 <= b /\ b <= 90)
    \/ (97 <= b /\ b <= 122)

IsUnreserved(b) == IsAlphanumeric(b) \/ b \in {45, 46, 95, 126}

\* "0123456789ABCDEF"
HexDigits == <<48, 49, 50, 51, 52, 53, 54, 55, 56, 57, 65, 66, 67, 68, 69, 70>>

PercentEncodeByte(b) ==
    IF IsUnreserved(b) THEN <<b>>
    ELSE <<37, HexDigits[(b \div 16) + 1], HexDigits[(b % 16) + 1]>>

PercentEncode(s) == Concat([i \in 1..Len(s) |-> PercentEncodeByte(s[i])])

(***************************************************************************)
(* SHA-1 (FIPS 180-4), HMAC (RFC 2104) and base64 (RFC 4648), the          *)
(* functions of the sha1, hmac and base64 crates that signature calls.     *)
(* A 32-bit word is the pair <<high 16 bits, low 16 bits>>, so that no     *)
(* intermediate value leaves the 32-bit integers.                          *)
(***************************************************************************)

Bit(n, i) == (n \div (2 ^ i)) % 2

XorNib ==
    [a \in 0..15 |-> [b \in 0..15 |->
        ((Bit(a, 0) + Bit(b, 0)) % 2) + 2 * ((Bit(a, 1) + Bit(b, 1)) % 2)
        + 4 * ((Bit(a, 2) + Bit(b, 2)) % 2) + 8 * ((Bit(a, 3) + Bit(b, 3)) % 2)]]

AndNib ==
    [a \in 0..15 |-> [b \in 0..15 |->
        (Bit(a, 0) * Bit(b, 0)) + 2 * (Bit(a, 1) * Bit(b, 1))
        + 4 * (Bit(a, 2) * Bit(b, 2)) + 8 * (Bit(a, 3) * Bit(b, 3))]]

\* A nibble-wise operation T on two 16-bit numbers.
Nib16(T, a, b) ==
    T[a \div 4096][b \div 4096] * 4096
    + T[(a \div 256) % 16][(b \div 256) % 16] * 256
    + T[(a \div 16) % 16][(b \div 16) % 16] * 16
    + T[a % 16][b % 16]

Xor32(x, y) == <<Nib16(XorNib, x[1], y[1]), Nib16(XorNib, x[2], y[2])>>
And32(x, y) == <<Nib16(AndNib, x[1], y[1]), Nib16(AndNib, x[2], y[2])>>
Not32(x) == <<65535 - x[1], 65535 - x[2]>>
Or32(x, y) == Not32(And32(Not32(x), Not32(y)))

\* Rotate left by n bits, 0 < n < 16.
RotlSmall(x, n) ==
    <<((x[1] * (2 ^ n)) % 65536) + (x[2] \div (2 ^ (16 - n))),
      ((x[2] * (2 ^ n)) % 65536) + (x[1] \div (2 ^ (16 - n)))>>

\* Rotate left by n bits, 0 < n < 32, n # 16.
Rotl(x, n) == IF n < 16 THEN RotlSmall(x, n) ELSE RotlSmall(<<x[2], x[1]>>, n - 16)

\* Addition modulo 2^32.
Add32(x, y) ==
    LET lo == x[2] + y[2]
    IN  <<(x[1] + y[1] + (lo \div 65536)) % 65536, lo % 65536>>

\* The message schedule: words lo..hi appended to the words before them,
\* w[t] = rotl1(w[t-3] xor w[t-8] xor w[t-14] xor w[t-16]).  (The range is
\* halved, not walked, to keep the evaluation shallow.)
RECURSIVE ExpandRange(_, _, _)
ExpandRange(w, lo, hi) ==
    IF lo = hi
    THEN Append(w, Rotl(Xor32(Xor32(w[lo - 3], w[lo - 8]),
                              Xor32(w[lo - 14], w[lo - 16])), 1))
    ELSE LET mid == (lo + hi) \div 2
             w1 == ExpandRange(w, lo, mid)
         IN  IF Len(w1) = mid THEN ExpandRange(w1, mid + 1, hi) ELSE <<>>

\* 16 words extended to 80.
ExpandW(w) == ExpandRange(w, 17, 80)

ShaF(t, b, c, d) ==
    IF t <= 20 THEN Or32(And32(b, c), And32(Not32(b), d))
    ELSE IF t <= 40 THEN Xor32(Xor32(b, c), d)
    ELSE IF t <= 60 THEN Or32(Or32(And32(b, c), And32(b, d)), And32(c, d))
    ELSE Xor32(Xor32(b, c), d)

ShaK(t) ==
    IF t <= 20 THEN <<23170, 31129>>        \* 5A827999
    ELSE IF t <= 40 THEN <<28377, 60321>>   \* 6ED9EBA1
    ELSE IF t <= 60 THEN <<36635, 48348>>   \* 8F1BBCDC
    ELSE <<51810, 49622>>                   \* CA62C1D6

ShaRound(s, wt, t) ==
    LET tmp == Add32(Add32(Add32(Add32(Rotl(s[1], 5), ShaF(t, s[2], s[3], s[4])),
                                 s[5]), ShaK(t)), wt)
    IN  <<tmp, s[1], Rotl(s[2], 30), s[3], s[4]>>

\* Rounds lo..hi applied in order.
RECURSIVE ShaRounds(_, _, _, _)
ShaRounds(s, w, lo, hi) ==
    IF lo = hi THEN ShaRound(s, w[lo], lo)
    ELSE LET mid == (lo + hi) \div 2
             s1 == ShaRounds(s, w, lo, mid)
         IN  IF Len(s1) = 5 THEN ShaRounds(s1, w, mid + 1, hi) ELSE <<>>

WordsOf(blk) ==
    [i \in 1..16 |-> <<blk[4 * i - 3] * 256 + blk[4 * i - 2],
                       blk[4 * i - 1] * 256 + blk[4 * i]>>]

ShaCompress(h, blk) ==
    LET w == ExpandW(WordsOf(blk))
        s == IF Len(w) = 80 THEN ShaRounds(h, w, 1, 80) ELSE <<>>
    IN  <<Add32(h[1], s[1]), Add32(h[2], s[2]), Add32(h[3], s[3]),
          Add32(h[4], s[4]), Add32(h[5], s[5])>>

\* 67452301 EFCDAB89 98BADCFE 10325476 C3D2E1F0
ShaH0 ==
    <<<<26437, 8961>>, <<61389, 43913>>, <<39098, 56574>>, <<4146, 21622>>,
      <<50130, 57840>>>>

Zeros(n) == [i \in 1..n |-> 0]

\* The message, 0x80, zeros up to 56 modulo 64, and the length in bits as
\* 8 big-endian bytes.
ShaPad(msg) ==
    LET n == Len(msg)
        bits == n * 8
    IN  msg \o <<128>> \o Zeros((119 - (n % 64)) % 64)
            \o <<0, 0, 0, 0, bits \div 16777216, (bits \div 65536) % 256,
                 (bits \div 256) % 256, bits % 256>>

\* The 64-byte blocks lo..hi of the padded message p compressed in order.
RECURSIVE ShaBlocks(_, _, _, _)
ShaBlocks(h, p, lo, hi) ==
    IF lo = hi THEN ShaCompress(h, SubSeq(p, 64 * lo - 63, 64 * lo))
    ELSE LET mid == (lo + hi) \div 2
             h1 == ShaBlocks(h, p, lo, mid)
         IN  IF h1 = h1 THEN ShaBlocks(h1, p, mid + 1, hi) ELSE <<>>

\* The 20-byte digest.
Sha1(msg) ==
    LET p == ShaPad(msg)
        h == IF Len(p) > 0 THEN ShaBlocks(ShaH0, p, 1, Len(p) \div 64) ELSE <<>>
    IN  [i \in 1..20 |->
            LET w == h[(i + 3) \div 4]
                k == (i - 1) % 4
            IN  IF k = 0 THEN w[1] \div 256
                ELSE IF k = 1 THEN w[1] % 256
                ELSE IF k = 2 THEN w[2] \div 256
                ELSE w[2] % 256]

XorByte(a, b) == XorNib[a \div 16][b \div 16] * 16 + XorNib[a % 16][b % 16]

\* Hmac::<Sha1>::new_from_slice(key), update(msg), finalize(): a key longer
\* than the 64-byte block is hashed first; new_from_slice fails for no key.
HmacSha1(key, msg) ==
    LET k0 == IF Len(key) > 64 THEN Sha1(key) ELSE key
        k == k0 \o Zeros(64 - Len(k0))
        ipad == [i \in 1..64 |-> XorByte(k[i], 54)]
        opad == [i \in 1..64 |-> XorByte(k[i], 92)]
    IN  Sha1(opad \o Sha1(ipad \o msg))

\* The alphabet of base64's URL_SAFE engine: '-' and '_' for '+' and '/'.
Base64Alphabet_UrlSafe ==
    <<65, 66, 67, 68, 69, 70, 71, 72, 73, 74, 75, 76, 77, 78, 79, 80, 81, 82,
      83, 84, 85, 86, 87, 88, 89, 90, 97, 98, 99, 100, 101, 102, 103, 104,
      105, 106, 107, 108, 109, 110, 111, 112, 113, 114, 115, 116, 117, 118,
      119, 120, 121, 122, 48, 49, 50, 51, 52, 53, 54, 55, 56, 57, 45, 95>>

\* "ABCDEFGHIJKLMNOPQRSTUVWXYZabcdefghijklmnopqrstuvwxyz0123456789+/"
Base64Alphabet ==
    <<65, 66, 67, 68, 69, 70, 71, 72, 73, 74, 75, 76, 77, 78, 79, 80, 81, 82,
      83, 84, 85, 86, 87, 88, 89, 90, 97, 98, 99, 100, 101, 102, 103, 104,
      105, 106, 107, 108, 109, 110, 111, 112, 113, 114, 115, 116, 117, 118,
      119, 120, 121, 122, 48, 49, 50, 51, 52, 53, 54, 55, 56, 57, 43, 47>>

\* general_purpose::STANDARD.encode: the standard alphabet, '=' padding.
Base64Group(bytes, i) ==
    LET n == Len(bytes)
        b1 == bytes[i]
        b2 == IF i + 1 <= n THEN bytes[i + 1] ELSE 0
        b3 == IF i + 2 <= n THEN bytes[i + 2] ELSE 0
    IN  <<Base64Alphabet[(b1 \div 4) + 1],
          Base64Alphabet[((b1 % 4) * 16 + (b2 \div 16)) + 1],
          IF i + 1 <= n THEN Base64Alphabet[((b2 % 16) * 4 + (b3 \div 64)) + 1] ELSE 61,
          IF i + 2 <= n THEN Base64Alphabet[(b3 % 64) + 1] ELSE 61>>

Base64Encode(bytes) ==
    Concat([g \in 1..((Len(bytes) + 2) \div 3) |-> Base64Group(bytes, 3 * g - 2)])


(***************************************************************************)
(* Credentials (struct OAuth10a)                                           *)
(***************************************************************************)

\* OAuth10a::new
New(api_key, api_key_secret, access_token, access_token_secret) ==
    [api_key_encoded |-> PercentEncode(api_key),
     access_token_encoded |-> PercentEncode(access_token),
     signing_key |->
        PercentEncode(api_key_secret) \o <<38>> \o PercentEncode(access_token_secret)]

\* The value of a call that ended in expect's panic.
Panicked == [panic |-> "the signing key should always contain an ampersand (&)"]

WithAccessToken_SecretNotEncoded(self, access_token, access_token_secret) ==
    LET sep_index == Find(self.signing_key, 38)
    IN  IF sep_index = 0 THEN Panicked
        ELSE [api_key_encoded |-> self.api_key_encoded,
              access_token_encoded |-> PercentEncode(access_token),
              signing_key |-> SubSeq(self.signing_key, 1, sep_index)
                                \o access_token_secret]

WithAccessToken_KeepsOldToken(self, access_token, access_token_secret) ==
    LET sep_index == Find(self.signing_key, 38)
    IN  IF sep_index = 0 THEN Panicked
        ELSE [api_key_encoded |-> self.api_key_encoded,
              access_token_encoded |-> self.access_token_encoded,
              signing_key |-> SubSeq(self.signing_key, 1, sep_index)
                                \o PercentEncode(access_token_secret)]

\* OAuth10a::with_access_token: the prefix of the signing key up to and
\* including its first '&', then the encoded new token secret.
WithAccessToken(self, access_token, access_token_secret) ==
    LET sep_index == Find(self.signing_key, 38)
    IN  IF sep_index = 0 THEN Panicked
        ELSE [api_key_encoded |-> self.api_key_encoded,
              access_token_encoded |-> PercentEncode(access_token),
              signing_key |-> SubSeq(self.signing_key, 1, sep_index)
                                \o PercentEncode(access_token_secret)]

(***************************************************************************)
(* Requests (struct Request, enum Method, trait RequestData).  A request   *)
(* is [method, base_url, data]; data is [kind, params, body] with kind     *)
(* "Unit" (the type ()), "Query", "Form" or "Json".                        *)
(***************************************************************************)

Methods == {"Get", "Post", "Put", "Delete"}

\* Method::as_str, Request::method_str: "GET", "POST", "PUT", "DELETE".
MethodStr(m) ==
    CASE m = "Get" -> <<71, 69, 84>>
      [] m = "Post" -> <<80, 79, 83, 84>>
      [] m = "Put" -> <<80, 85, 84>>
      [] m = "Delete" -> <<68, 69, 76, 69, 84, 69>>

UnitData == [kind |-> "Unit", params |-> <<>>, body |-> <<>>]
QueryData(params) == [kind |-> "Query", params |-> params, body |-> <<>>]
FormData(params) == [kind |-> "Form", params |-> params, body |-> <<>>]
JsonData(body) == [kind |-> "Json", params |-> <<>>, body |-> body]

\* Request::new_with_data
NewWithData(method, base_url, data) ==
    [method |-> method, base_url |-> base_url, data |-> data]

\* JsonData handing its body to the closure as a parameter "body".
ForEachParam_JsonBodyAsParam(data) ==
    IF data.kind \in {"Query", "Form"} THEN data.params
    ELSE IF data.kind = "Json" THEN <<<<<<98, 111, 100, 121>>, data.body>>>>
    ELSE <<>>

ForEachParam_JsonBodyAsKey(data) ==
    IF data.kind \in {"Query", "Form"} THEN data.params
    ELSE IF data.kind = "Json" THEN <<<<data.body, <<>>>>>>
    ELSE <<>>

\* RequestData::for_each_param: the (key, value) pairs handed to the
\* closure, in order.  () and JsonData hand it none.
ForEachParam(data) ==
    IF data.kind \in {"Query", "Form"} THEN data.params ELSE <<>>

(***************************************************************************)
(* Signing (OAuth10a::parameter_string, signature_base, signature)         *)
(***************************************************************************)

ProtocolParams_EncodedAgain(self, nonce_encoded, timestamp) ==
    {<<<<111, 97, 117, 116, 104, 95, 99, 111, 110, 115, 117, 109, 101, 114, 95, 107, 101, 121>>,
       PercentEncode(self.api_key_encoded)>>,
     <<<<111, 97, 117, 116, 104, 95, 110, 111, 110, 99, 101>>,
       nonce_encoded>>,
     <<<<111, 97, 117, 116, 104, 95, 115, 105, 103, 110, 97, 116, 117, 114, 101, 95, 109, 101, 116, 104, 111, 100>>,
       <<72, 77, 65, 67, 45, 83, 72, 65, 49>>>>,
     <<<<111, 97, 117, 116, 104, 95, 116, 105, 109, 101, 115, 116, 97, 109, 112>>,
       I64ToString(timestamp)>>,
     <<<<111, 97, 117, 116, 104, 95, 116, 111, 107, 101, 110>>,
       PercentEncode(self.access_token_encoded)>>,
     <<<<111, 97, 117, 116, 104, 95, 118, 101, 114, 115, 105, 111, 110>>,
       <<49, 46, 48>>>>}

\* The six pairs that parameter_string inserts before the request's own.
ProtocolParams(self, nonce_encoded, timestamp) ==
    {<<(* oauth_consumer_key *)
       <<111, 97, 117, 116, 104, 95, 99, 111, 110, 115, 117, 109, 101, 114, 95, 107, 101, 121>>,
       self.api_key_encoded>>,
     <<(* oauth_nonce *)
       <<111, 97, 117, 116, 104, 95, 110, 111, 110, 99, 101>>,
       nonce_encoded>>,
     <<(* oauth_signature_method, HMAC-SHA1 *)
       <<111, 97, 117, 116, 104, 95, 115, 105, 103, 110, 97, 116, 117, 114, 101, 95, 109, 101, 116, 104, 111, 100>>,
       <<72, 77, 65, 67, 45, 83, 72, 65, 49>>>>,
     <<(* oauth_timestamp *)
       <<111, 97, 117, 116, 104, 95, 116, 105, 109, 101, 115, 116, 97, 109, 112>>,
       I64ToString(timestamp)>>,
     <<(* oauth_token *)
       <<111, 97, 117, 116, 104, 95, 116, 111, 107, 101, 110>>,
       self.access_token_encoded>>,
     <<(* oauth_version, 1.0 *)
       <<111, 97, 117, 116, 104, 95, 118, 101, 114, 115, 105, 111, 110>>,
       <<49, 46, 48>>>>}

\* The iteration order of a BTreeSet: ascending.
RECURSIVE InOrder(_)
InOrder(set) ==
    IF set = {} THEN <<>>
    ELSE LET least == CHOOSE p \in set : \A q \in set : p = q \/ PairLess(p, q)
         IN  <<least>> \o InOrder(set \ {least})

\* The pairs in the order parameter_string inserts them.
InOrderOfInsertion(self, request, nonce_encoded, timestamp) ==
    InOrder(ProtocolParams(self, nonce_encoded, timestamp))
        \o [i \in 1..Len(ForEachParam(request.data)) |->
                <<PercentEncode(ForEachParam(request.data)[i][1]),
                  PercentEncode(ForEachParam(request.data)[i][2])>>]

\* The pairs the closure of parameter_string inserts: each request pair
\* with its key and its value percent-encoded.
RequestParams(request) ==
    {<<PercentEncode(p[1]), PercentEncode(p[2])>> : p \in Range(ForEachParam(request.data))}

SignedParams_MapByKey(self, request, nonce_encoded, timestamp) ==
    LET inserted == InOrderOfInsertion(self, request, nonce_encoded, timestamp)
    IN  {inserted[i] : i \in {j \in 1..Len(inserted) :
                                \A l \in (j + 1)..Len(inserted) :
                                    inserted[l][1] # inserted[j][1]}}

\* The BTreeSet after all inserts.
SignedParams(self, request, nonce_encoded, timestamp) ==
    ProtocolParams(self, nonce_encoded, timestamp) \cup RequestParams(request)

\* The loop of parameter_string: key '=' value, with '&' pushed before
\* every pair that finds the buffer non-empty.
RECURSIVE JoinParams(_, _)
JoinParams(buf, pairs) ==
    IF pairs = <<>> THEN buf
    ELSE JoinParams((IF buf # <<>> THEN buf \o <<38>> ELSE buf)
                        \o Head(pairs)[1] \o <<61>> \o Head(pairs)[2],
                    Tail(pairs))

ParameterString_InsertionOrder(self, request, nonce_encoded, timestamp) ==
    JoinParams(<<>>, InOrderOfInsertion(self, request, nonce_encoded, timestamp))

\* OAuth10a::parameter_string
ParameterString(self, request, nonce_encoded, timestamp) ==
    JoinParams(<<>>, InOrder(SignedParams(self, request, nonce_encoded, timestamp)))

SignatureBase_RawParameterString(self, request, nonce_encoded, timestamp) ==
    MethodStr(request.method) \o <<38>> \o PercentEncode(request.base_url) \o <<38>>
        \o ParameterString(self, request, nonce_encoded, timestamp)

\* OAuth10a::signature_base
SignatureBase(self, request, nonce_encoded, timestamp) ==
    MethodStr(request.method) \o <<38>> \o PercentEncode(request.base_url) \o <<38>>
        \o PercentEncode(ParameterString(self, request, nonce_encoded, timestamp))

\* OAuth10a::signature
Signature(self, request, nonce_encoded, timestamp) ==
    Base64Encode(HmacSha1(self.signing_key,
                          SignatureBase(self, request, nonce_encoded, timestamp)))

(***************************************************************************)
(* The Authorization header (impl Auth for OAuth10a) and the nonce         *)
(* (gen_alphanumeric_nonce)                                                *)
(***************************************************************************)

NONCE_LEN == 64

\* The characters rand::distributions::Alphanumeric samples from:
\* "ABCDEFGHIJKLMNOPQRSTUVWXYZabcdefghijklmnopqrstuvwxyz0123456789"
AlphanumericCharset ==
    <<65, 66, 67, 68, 69, 70, 71, 72, 73, 74, 75, 76, 77, 78, 79, 80, 81, 82,
      83, 84, 85, 86, 87, 88, 89, 90, 97, 98, 99, 100, 101, 102, 103, 104,
      105, 106, 107, 108, 109, 110, 111, 112, 113, 114, 115, 116, 117, 118,
      119, 120, 121, 122, 48, 49, 50, 51, 52, 53, 54, 55, 56, 57>>

\* CappedString::<N>::push_truncating: the character is appended if its
\* bytes fit in the N bytes of the buffer, and dropped if not.
PushTruncating(buf, ch, cap) ==
    IF Len(buf) + Len(ch) <= cap THEN buf \o ch ELSE buf

\* The loop of gen_alphanumeric_nonce from its i-th round on; samples[i] is
\* what rng.sample(Alphanumeric) returns in round i.
RECURSIVE NonceLoop(_, _, _)
NonceLoop(buf, samples, i) ==
    IF i > NONCE_LEN THEN buf
    ELSE LET pushed == PushTruncating(buf, <<samples[i]>>, NONCE_LEN)
         IN  IF Len(pushed) >= 0 THEN NonceLoop(pushed, samples, i + 1) ELSE <<>>

\* gen_alphanumeric_nonce
GenAlphanumericNonce(samples) == NonceLoop(<<>>, samples, 1)

AuthHeaderText_RawSignature(self, nonce, signature, timestamp) ==
    <<79, 65, 117, 116, 104, 32, 111, 97, 117, 116, 104, 95, 99, 111, 110,
      115, 117, 109, 101, 114, 95, 107, 101, 121, 61, 34>>
    \o self.api_key_encoded
    \o <<34, 44, 32, 111, 97, 117, 116, 104, 95, 110, 111, 110, 99, 101, 61, 34>>
    \o nonce
    \o <<34, 44, 32, 111, 97, 117, 116, 104, 95, 115, 105, 103, 110, 97, 116,
      117, 114, 101, 61, 34>>
    \o signature
    \o <<34, 44, 32, 111, 97, 117, 116, 104, 95, 115, 105, 103, 110, 97, 116,
      117, 114, 101, 95, 109, 101, 116, 104, 111, 100, 61, 34, 72, 77, 65, 67,
      45, 83, 72, 65, 49, 34, 44, 32, 111, 97, 117, 116, 104, 95, 116, 105,
      109, 101, 115, 116, 97, 109, 112, 61, 34>>
    \o I64ToString(timestamp)
    \o <<34, 44, 32, 111, 97, 117, 116, 104, 95, 116, 111, 107, 101, 110, 61, 34>>
    \o self.access_token_encoded
    \o <<34, 44, 32, 111, 97, 117, 116, 104, 95, 118, 101, 114, 115, 105, 111,
      110, 61, 34, 49, 46, 48, 34>>

\* The format! of auth_header:
\* OAuth oauth_consumer_key="{}", oauth_nonce="{}", oauth_signature="{}",
\* oauth_signature_method="HMAC-SHA1", oauth_timestamp="{}",
\* oauth_token="{}", oauth_version="1.0"
AuthHeaderText(self, nonce, signature, timestamp) ==
    <<79, 65, 117, 116, 104, 32, 111, 97, 117, 116, 104, 95, 99, 111, 110,
      115, 117, 109, 101, 114, 95, 107, 101, 121, 61, 34>>
    \o self.api_key_encoded
    \o <<34, 44, 32, 111, 97, 117, 116, 104, 95, 110, 111, 110, 99, 101, 61, 34>>
    \o nonce
    \o <<34, 44, 32, 111, 97, 117, 116, 104, 95, 115, 105, 103, 110, 97, 116,
      117, 114, 101, 61, 34>>
    \o PercentEncode(signature)
    \o <<34, 44, 32, 111, 97, 117, 116, 104, 95, 115, 105, 103, 110, 97, 116,
      117, 114, 101, 95, 109, 101, 116, 104, 111, 100, 61, 34, 72, 77, 65, 67,
      45, 83, 72, 65, 49, 34, 44, 32, 111, 97, 117, 116, 104, 95, 116, 105,
      109, 101, 115, 116, 97, 109, 112, 61, 34>>
    \o I64ToString(timestamp)
    \o <<34, 44, 32, 111, 97, 117, 116, 104, 95, 116, 111, 107, 101, 110, 61, 34>>
    \o self.access_token_encoded
    \o <<34, 44, 32, 111, 97, 117, 116, 104, 95, 118, 101, 114, 115, 105, 111,
      110, 61, 34, 49, 46, 48, 34>>

(***************************************************************************)
(* The credentials, request, nonce and timestamp of tests::test_signature  *)
(* (the example of the Twitter documentation) and the signature it         *)
(* expects.                                                                *)
(***************************************************************************)

\* "xvz1evFS4wEEPTGEFPHBog"
DocApiKey ==
    <<120, 118, 122, 49, 101, 118, 70, 83, 52, 119, 69, 69, 80, 84, 71, 69,
      70, 80, 72, 66, 111, 103>>

\* "kAcSOqF21Fu85e7zjz7ZN2U4ZRhfV3WpwPAoE3Z7kBw"
DocApiKeySecret ==
    <<107, 65, 99, 83, 79, 113, 70, 50, 49, 70, 117, 56, 53, 101, 55, 122,
      106, 122, 55, 90, 78, 50, 85, 52, 90, 82, 104, 102, 86, 51, 87, 112,
      119, 80, 65, 111, 69, 51, 90, 55, 107, 66, 119>>

\* "370773112-GmHxMAgYyLbNEtIKZeRNFsMKPR9EyMZeS9weJAEb"
DocAccessToken ==
    <<51, 55, 48, 55, 55, 51, 49, 49, 50, 45, 71, 109, 72, 120, 77, 65, 103,
      89, 121, 76, 98, 78, 69, 116, 73, 75, 90, 101, 82, 78, 70, 115, 77, 75,
      80, 82, 57, 69, 121, 77, 90, 101, 83, 57, 119, 101, 74, 65, 69, 98>>

\* "LswwdoUaIvS8ltyTt5jkRh4J50vUPVVHtR2YPi5kE"
DocAccessTokenSecret ==
    <<76, 115, 119, 119, 100, 111, 85, 97, 73, 118, 83, 56, 108, 116, 121,
      84, 116, 53, 106, 107, 82, 104, 52, 74, 53, 48, 118, 85, 80, 86, 86,
      72, 116, 82, 50, 89, 80, 105, 53, 107, 69>>

\* "https://api.twitter.com/1.1/statuses/update.json"
DocBaseUrl ==
    <<104, 116, 116, 112, 115, 58, 47, 47, 97, 112, 105, 46, 116, 119, 105,
      116, 116, 101, 114, 46, 99, 111, 109, 47, 49, 46, 49, 47, 115, 116, 97,
      116, 117, 115, 101, 115, 47, 117, 112, 100, 97, 116, 101, 46, 106, 115,
      111, 110>>

\* ("include_entities", "true")
DocParamEntities ==
    <<<<105, 110, 99, 108, 117, 100, 101, 95, 101, 110, 116, 105, 116, 105, 101, 115>>,
      <<116, 114, 117, 101>>>>

\* ("status", "Hello Ladies + Gentlemen, a signed OAuth request!")
DocParamStatus ==
    <<<<115, 116, 97, 116, 117, 115>>,
      <<72, 101, 108, 108, 111, 32, 76, 97, 100, 105, 101, 115, 32, 43, 32,
        71, 101, 110, 116, 108, 101, 109, 101, 110, 44, 32, 97, 32, 115, 105,
        103, 110, 101, 100, 32, 79, 65, 117, 116, 104, 32, 114, 101, 113,
        117, 101, 115, 116, 33>>>>

DocRequest ==
    NewWithData("Post", DocBaseUrl, FormData(<<DocParamEntities, DocParamStatus>>))

\* "kYjzVBB8Y0ZFabxSWbWovY3uYSQ2pTgmZeNu2VS4cg"
DocNonce ==
    <<107, 89, 106, 122, 86, 66, 66, 56, 89, 48, 90, 70, 97, 98, 120, 83, 87,
      98, 87, 111, 118, 89, 51, 117, 89, 83, 81, 50, 112, 84, 103, 109, 90,
      101, 78, 117, 50, 86, 83, 52, 99, 103>>

DocTimestamp == 1318622958

\* "hCtSmYh+iHYCEqBWrE7C7hYmtUk="
DocSignature ==
    <<104, 67, 116, 83, 109, 89, 104, 43, 105, 72, 89, 67, 69, 113, 66, 87,
      114, 69, 55, 67, 55, 104, 89, 109, 116, 85, 107, 61>>

(***************************************************************************)
(* The inputs the model draws its strings from.  Besides the documented    *)
(* credentials they hold the empty string and strings with '&', '%', '='   *)
(* and ' ' in them.                                                        *)
(***************************************************************************)

\* DocApiKey, "k&%"
ApiKeys == {DocApiKey, <<107, 38, 37>>}

\* DocApiKeySecret, "", "&", "a&b%"
ApiKeySecrets == {DocApiKeySecret, <<>>, <<38>>, <<97, 38, 98, 37>>}

\* DocAccessToken, "", "t&="
AccessTokens == {DocAccessToken, <<>>, <<116, 38, 61>>}

\* DocAccessTokenSecret, "", "&", "%26"
AccessTokenSecrets == {DocAccessTokenSecret, <<>>, <<38>>, <<37, 50, 54>>}

(***************************************************************************)
(* State                                                                   *)
(***************************************************************************)

VARIABLES
    cred,       \* the OAuth10a value in hand (its three fields), or Panicked
    raw,        \* the four strings cred stands for: [k, ks, t, s]
    orig,       \* the four strings OAuth10a::new was called with
    prev,       \* the OAuth10a value the last with_access_token was called on
    rotated,    \* whether with_access_token has been called
    pcall,      \* the arguments of one call into the signing functions
    pout,       \* which signing function was called on pcall, and its result
    auth,       \* the OAuth10a value a client signs with
    clock,      \* what Utc::now().timestamp() returns
    rng,        \* the state of the thread's random number generator
    changed,    \* whether clock, rng or auth moved since the last signing call
    last,       \* the last signing call: its arguments and what it returned
    sigs,       \* values of OAuth10a::signature, computed once and looked up
    threads,    \* per thread: where it is in a call on the shared credential
    clients,    \* the AsyncClient values the program holds, each with its credential
    spent,      \* the clients get_request_token or get_access_token was called on
    result      \* the last call on a client: its arguments, what it sent and returned

credVars == <<cred, raw, orig, prev, rotated>>

paramVars == <<pcall, pout>>

signVars == <<auth, clock, rng, changed, last, sigs>>

threadVars == <<threads>>

flowVars == <<clients, spent, result>>

vars ==
    <<cred, raw, orig, prev, rotated, pcall, pout, auth, clock, rng, changed, last, sigs,
      threads, clients, spent, result>>

\* The values of the variables a specification does not use.
NoCred == [api_key_encoded |-> <<>>, access_token_encoded |-> <<>>, signing_key |-> <<38>>]

NoRaw == [k |-> <<>>, ks |-> <<>>, t |-> <<>>, s |-> <<>>]

NoCall == [none |-> TRUE]

NoOut == [fn |-> "none", value |-> <<>>]

CredIdle ==
    /\ cred = NoCred
    /\ raw = NoRaw
    /\ orig = NoRaw
    /\ prev = NoCred
    /\ rotated = FALSE

ParamIdle ==
    /\ pcall = NoCall
    /\ pout = NoOut

NoLast ==
    [kind |-> "none", self |-> NoCred, request |-> NoCall, nonce |-> <<>>,
     timestamp |-> 0, signature |-> <<>>, header |-> <<>>, repeats |-> FALSE,
     moved |-> FALSE, agrees |-> TRUE]

SignIdle ==
    /\ auth = NoCred
    /\ clock = 0
    /\ rng = 0
    /\ changed = FALSE
    /\ last = NoLast
    /\ sigs = <<>>

ThreadIdle == threads = <<>>

NoResult == [fn |-> "none"]

FlowIdle ==
    /\ clients = <<>>
    /\ spent = {}
    /\ result = NoResult

(***************************************************************************)
(* SpecCred: a credential built by OAuth10a::new and then rotated by any   *)
(* number of with_access_token calls.                                      *)
(***************************************************************************)

\* let auth = OAuth10a::new(k, ks, t, s)
InitCred ==
    \E k \in ApiKeys, ks \in ApiKeySecrets, t \in AccessTokens, s \in AccessTokenSecrets :
        /\ cred = New(k, ks, t, s)
        /\ raw = [k |-> k, ks |-> ks, t |-> t, s |-> s]
        /\ orig = [k |-> k, ks |-> ks, t |-> t, s |-> s]
        /\ prev = New(k, ks, t, s)
        /\ rotated = FALSE
        /\ ParamIdle
        /\ SignIdle
        /\ ThreadIdle
    /\ FlowIdle

\* auth = auth.with_access_token(t2, s2); a panicked program goes no further.
Rotate ==
    \E t2 \in AccessTokens, s2 \in AccessTokenSecrets :
        /\ "panic" \notin DOMAIN cred
        /\ cred' = WithAccessToken(cred, t2, s2)
        /\ raw' = [raw EXCEPT !.t = t2, !.s = s2]
        /\ prev' = cred
        /\ rotated' = TRUE
        /\ UNCHANGED <<orig, paramVars, signVars, threadVars, flowVars>>

NextCred == Rotate

SpecCred == InitCred /\ [][NextCred]_vars

(***************************************************************************)
(* SpecParams: one call of parameter_string, signature_base or signature   *)
(* on arguments drawn from the sample sets below.                          *)
(***************************************************************************)

\* The longest parameter list a sampled request carries.
MaxParams == 2

\* ("b", "0"), ("b", "="), ("", ""), ("é=& +", "a b"), ("oauth_version", "1.0")
ParamPairs ==
    {<<<<98>>, <<48>>>>,
     <<<<98>>, <<61>>>>,
     <<<<>>, <<>>>>,
     <<<<195, 169, 61, 38, 32, 43>>, <<97, 32, 98>>>>,
     <<<<111, 97, 117, 116, 104, 95, 118, 101, 114, 115, 105, 111, 110>>, <<49, 46, 48>>>>}

\* Every sequence over S of length at most n.
SeqsUpTo(S, n) == UNION {[1..m -> S] : m \in 0..n}

\* The JSON bodies: {}, {"text":"hi"} and, to tell a body from a list of
\* pairs, a=1&oauth_token=x.
JsonBodies ==
    {<<123, 125>>,
     <<123, 34, 116, 101, 120, 116, 34, 58, 34, 104, 105, 34, 125>>,
     <<97, 61, 49, 38, 111, 97, 117, 116, 104, 95, 116, 111, 107, 101, 110, 61, 120>>}

\* (), JsonData of every body of JsonBodies, and QueryData and FormData of
\* every list of at most MaxParams pairs.
ParamData ==
    {UnitData}
        \cup {JsonData(body) : body \in JsonBodies}
        \cup {QueryData(l) : l \in SeqsUpTo(ParamPairs, MaxParams)}
        \cup {FormData(l) : l \in SeqsUpTo(ParamPairs, MaxParams)}

\* The credentials and endpoints of the sampled calls:
\*   ("k&%", "a&b%", "t&=", "%26")  POST   "https://x.y/a?b=c&d=e f"
\*   ("k", "", "", "")              GET    "https://x.y/a"
\*   ("k&%", "a&b%", "t&=", "%26")  DELETE ""
\*   ("k", "", "", "")              PUT    DocBaseUrl
ParamTargets ==
    {[raw |-> [k |-> <<107, 38, 37>>, ks |-> <<97, 38, 98, 37>>,
               t |-> <<116, 38, 61>>, s |-> <<37, 50, 54>>],
      method |-> "Post",
      base_url |-> <<104, 116, 116, 112, 115, 58, 47, 47, 120, 46, 121, 47, 97,
                     63, 98, 61, 99, 38, 100, 61, 101, 32, 102>>],
     [raw |-> [k |-> <<107>>, ks |-> <<>>, t |-> <<>>, s |-> <<>>],
      method |-> "Get",
      base_url |-> <<104, 116, 116, 112, 115, 58, 47, 47, 120, 46, 121, 47, 97>>],
     [raw |-> [k |-> <<107, 38, 37>>, ks |-> <<97, 38, 98, 37>>,
               t |-> <<116, 38, 61>>, s |-> <<37, 50, 54>>],
      method |-> "Delete",
      base_url |-> <<>>],
     [raw |-> [k |-> <<107>>, ks |-> <<>>, t |-> <<>>, s |-> <<>>],
      method |-> "Put",
      base_url |-> DocBaseUrl]}

\* "n0"
ParamNonce == <<110, 48>>

\* The pairs of the calls whose signature is computed: ("b", "=") and
\* ("é=& +", "a b").
SignedPairs ==
    {<<<<98>>, <<61>>>>,
     <<<<195, 169, 61, 38, 32, 43>>, <<97, 32, 98>>>>}

\* let auth = OAuth10a::new(..); let request = Request::new_with_data(..)
InitParams ==
    /\ CredIdle
    /\ \E target \in ParamTargets, data \in ParamData :
        pcall = [raw |-> target.raw,
                 self |-> New(target.raw.k, target.raw.ks, target.raw.t, target.raw.s),
                 request |-> NewWithData(target.method, target.base_url, data),
                 nonce |-> ParamNonce,
                 timestamp |-> DocTimestamp]
    /\ pout = NoOut
    /\ SignIdle
    /\ ThreadIdle
    /\ FlowIdle

\* auth.parameter_string(&request, nonce, timestamp)
CallParameterString ==
    /\ pout.fn = "none"
    /\ pout' = [fn |-> "parameter_string",
                value |-> ParameterString(pcall.self, pcall.request, pcall.nonce,
                                          pcall.timestamp)]
    /\ UNCHANGED <<credVars, pcall, signVars, threadVars, flowVars>>

\* auth.signature_base(&request, nonce, timestamp)
CallSignatureBase ==
    /\ pout.fn = "none"
    /\ pout' = [fn |-> "signature_base",
                value |-> SignatureBase(pcall.self, pcall.request, pcall.nonce,
                                        pcall.timestamp)]
    /\ UNCHANGED <<credVars, pcall, signVars, threadVars, flowVars>>

\* auth.signature(&request, nonce, timestamp), computed for the requests
\* without parameters and for the form requests that carry the SignedPairs
\* in some order.
CallSignature ==
    /\ pout.fn = "none"
    /\ \/ ForEachParam(pcall.request.data) = <<>>
       \/ /\ pcall.request.data.kind = "Form"
          /\ Len(pcall.request.data.params) = Cardinality(SignedPairs)
          /\ Range(pcall.request.data.params) = SignedPairs
    /\ pout' = [fn |-> "signature",
                value |-> Signature(pcall.self, pcall.request, pcall.nonce,
                                    pcall.timestamp)]
    /\ UNCHANGED <<credVars, pcall, signVars, threadVars, flowVars>>

NextParams ==
    \/ CallParameterString
    \/ CallSignatureBase
    \/ CallSignature

SpecParams == InitParams /\ [][NextParams]_vars

(***************************************************************************)
(* SpecNonce: one call of gen_alphanumeric_nonce on a random number        *)
(* generator that is about to return any of the sample sequences below.    *)
(***************************************************************************)

\* The largest step between two characters a sample sequence returns.
MaxStride == 2

\* What rng.sample(Alphanumeric) returns in NONCE_LEN rounds: from the
\* a-th character of the charset on, every b-th one.
SampleStream(a, b) ==
    [i \in 1..NONCE_LEN |-> AlphanumericCharset[((a + b * i) % 62) + 1]]

\* let rng = &mut rand::thread_rng()
InitNonce ==
    /\ CredIdle
    /\ SignIdle
    /\ ThreadIdle
    /\ FlowIdle
    /\ \E a \in 0..61, b \in 0..MaxStride : pcall = [samples |-> SampleStream(a, b)]
    /\ pout = NoOut

GenNonce_OneRoundShort ==
    /\ pout.fn = "none"
    /\ pout' = [fn |-> "gen_alphanumeric_nonce",
                value |-> NonceLoop(<<>>, pcall.samples, 2)]
    /\ UNCHANGED <<credVars, pcall, signVars, threadVars, flowVars>>

\* gen_alphanumeric_nonce(rng)
GenNonce ==
    /\ pout.fn = "none"
    /\ pout' = [fn |-> "gen_alphanumeric_nonce",
                value |-> GenAlphanumericNonce(pcall.samples)]
    /\ UNCHANGED <<credVars, pcall, signVars, threadVars, flowVars>>

NextNonce == GenNonce

SpecNonce == InitNonce /\ [][NextNonce]_vars

(***************************************************************************)
(* Spec: a client that holds an OAuth10a value, rotates its access token,  *)
(* and signs requests, by OAuth10a::signature with a nonce and a timestamp *)
(* passed in (as tests::test_signature does) and by auth_header, which     *)
(* draws the nonce from the thread's random number generator and reads the *)
(* timestamp from the clock.  The clock and the generator move on their    *)
(* own between calls.                                                      *)
(***************************************************************************)

\* How far the clock runs past DocTimestamp.
MaxTicks == 1

\* The states of the generator the model follows.
RngSeeds == {0, 1}

\* The NONCE_LEN characters sample(Alphanumeric) returns from generator
\* state seed on.
RngStream(seed) ==
    [i \in 1..NONCE_LEN |->
        AlphanumericCharset[((seed * 31 + i * (2 * seed + 7)) % 62) + 1]]

\* The token pairs the client rotates between: the documented pair and the
\* empty pair, ("", "").
SignTokens ==
    {[t |-> DocAccessToken, s |-> DocAccessTokenSecret], [t |-> <<>>, s |-> <<>>]}

\* The credentials the client can hold.
SignCreds ==
    <<New(DocApiKey, DocApiKeySecret, DocAccessToken, DocAccessTokenSecret),
      New(DocApiKey, DocApiKeySecret, <<>>, <<>>)>>

\* POST https://api.twitter.com/2/tweets with JsonData of {"text":"hi"}
TweetRequest ==
    NewWithData("Post",
        <<104, 116, 116, 112, 115, 58, 47, 47, 97, 112, 105, 46, 116, 119,
          105, 116, 116, 101, 114, 46, 99, 111, 109, 47, 50, 47, 116, 119,
          101, 101, 116, 115>>,
        JsonData(<<123, 34, 116, 101, 120, 116, 34, 58, 34, 104, 105, 34, 125>>))

\* GET https://api.twitter.com/2/users with QueryData of ("ids", "12")
UsersRequest ==
    NewWithData("Get",
        <<104, 116, 116, 112, 115, 58, 47, 47, 97, 112, 105, 46, 116, 119,
          105, 116, 116, 101, 114, 46, 99, 111, 109, 47, 50, 47, 117, 115,
          101, 114, 115>>,
        QueryData(<<<<<<105, 100, 115>>, <<49, 50>>>>>>))

\* The requests the client signs.
SignRequests == <<DocRequest, TweetRequest, UsersRequest>>

\* The (nonce, timestamp) pairs signature is called with: the documented
\* pair, and every nonce of the generator with every time of the clock.
SigInputs ==
    {<<DocNonce, DocTimestamp>>}
        \cup {<<GenAlphanumericNonce(RngStream(seed)), DocTimestamp + d>> :
                seed \in RngSeeds, d \in 0..MaxTicks}

\* The position of v in the tuple seq, or 0.
IndexOf(seq, v) ==
    IF \E i \in DOMAIN seq : seq[i] = v
    THEN CHOOSE i \in DOMAIN seq : seq[i] = v
    ELSE 0

\* signature(self, request, nonce, timestamp): the value recorded in sigs
\* for these arguments; the empty string stands for a value that is not
\* recorded (no signature is empty).
Signed(self, request, nonce, timestamp) ==
    LET key == <<IndexOf(SignCreds, self), IndexOf(SignRequests, request),
                 nonce, timestamp>>
    IN  IF key \in DOMAIN sigs THEN sigs[key] ELSE <<>>

\* signature's value for every credential, request and (nonce, timestamp)
\* pair of a run.
SigTable ==
    [key \in {<<c, r, in[1], in[2]>> :
                c \in DOMAIN SignCreds, r \in DOMAIN SignRequests, in \in SigInputs} |->
        Signature(SignCreds[key[1]], SignRequests[key[2]], key[3], key[4])]

\* let auth = OAuth10a::new(DocApiKey, ..)
Init ==
    /\ CredIdle
    /\ ParamIdle
    /\ ThreadIdle
    /\ FlowIdle
    /\ auth = SignCreds[1]
    /\ clock = DocTimestamp
    /\ rng = 0
    /\ changed = FALSE
    /\ last = NoLast
    /\ sigs = SigTable

\* auth = auth.with_access_token(t, s)
RotateToken ==
    \E token \in SignTokens :
        /\ auth' = WithAccessToken(auth, token.t, token.s)
        /\ auth' # auth
        /\ changed' = TRUE
        /\ UNCHANGED <<credVars, paramVars, clock, rng, last, sigs, threadVars, flowVars>>

\* A second passes.
Tick ==
    /\ clock < DocTimestamp + MaxTicks
    /\ clock' = clock + 1
    /\ changed' = TRUE
    /\ UNCHANGED <<credVars, paramVars, auth, rng, last, sigs, threadVars, flowVars>>

\* Another user of rand::thread_rng() draws from the generator.
Reseed ==
    \E seed \in RngSeeds \ {rng} :
        /\ rng' = seed
        /\ changed' = TRUE
        /\ UNCHANGED <<credVars, paramVars, auth, clock, last, sigs, threadVars, flowVars>>

\* The record of a signing call.  It repeats the call before it if it has
\* the same credential, request, nonce and timestamp; moved tells whether
\* the clock, the generator or the credential moved between the two; it
\* agrees with the call before it if it repeats it to the same signature.
CallRecord(kind, request, nonce, timestamp, signature, header) ==
    LET same == /\ last.kind # "none"
                /\ last.self = auth
                /\ last.request = request
                /\ last.nonce = nonce
                /\ last.timestamp = timestamp
    IN  [kind |-> kind, self |-> auth, request |-> request, nonce |-> nonce,
         timestamp |-> timestamp, signature |-> signature, header |-> header,
         repeats |-> same,
         moved |-> same /\ changed,
         agrees |-> same => signature = last.signature]

TestSignature_ReadsClock ==
    \E request \in Range(SignRequests), in \in SigInputs :
        /\ last' = CallRecord("signature", request, in[1], in[2],
                              Signed(auth, request, in[1], clock), <<>>)
        /\ changed' = FALSE
        /\ UNCHANGED <<credVars, paramVars, auth, clock, rng, sigs, threadVars, flowVars>>

\* auth.signature(&request, nonce, timestamp)
TestSignature ==
    \E request \in Range(SignRequests), in \in SigInputs :
        /\ last' = CallRecord("signature", request, in[1], in[2],
                              Signed(auth, request, in[1], in[2]), <<>>)
        /\ changed' = FALSE
        /\ UNCHANGED <<credVars, paramVars, auth, clock, rng, sigs, threadVars, flowVars>>

\* auth.auth_header(&request); the generator does not stay in its state.
AuthHeader ==
    \E request \in Range(SignRequests), seed \in RngSeeds \ {rng} :
        LET nonce == GenAlphanumericNonce(RngStream(rng))
            timestamp == clock
            signature == Signed(auth, request, nonce, timestamp)
        IN  /\ last' = CallRecord("auth_header", request, nonce, timestamp, signature,
                                  AuthHeaderText(auth, nonce, signature, timestamp))
            /\ rng' = seed
            /\ changed' = FALSE
            /\ UNCHANGED <<credVars, paramVars, auth, clock, sigs, threadVars, flowVars>>

Next ==
    \/ RotateToken
    \/ Tick
    \/ Reseed
    \/ TestSignature
    \/ AuthHeader

Spec == Init /\ [][Next]_vars

(***************************************************************************)
(* SpecShared: one OAuth10a behind an Arc, and threads that call           *)
(* auth_header and with_access_token on it, a line of auth_header at a     *)
(* time, in any interleaving.  rand::thread_rng() is each thread's own      *)
(* generator, in any of its states when the nonce is drawn; the clock is   *)
(* shared.                                                                 *)
(***************************************************************************)

Threads == {1, 2}

\* The requests the threads sign.
ThreadRequests == {DocRequest, TweetRequest}

\* A thread between calls, with what its last call returned.
ThreadReturned(kind, request, nonce, timestamp, value) ==
    [pc |-> "idle", request |-> request, nonce |-> nonce, timestamp |-> timestamp,
     signature |-> <<>>, kind |-> kind, value |-> value]

\* let auth = Arc::new(OAuth10a::new(DocApiKey, ..))
InitShared ==
    /\ CredIdle
    /\ ParamIdle
    /\ auth = SignCreds[1]
    /\ clock = DocTimestamp
    /\ rng = 0
    /\ changed = FALSE
    /\ last = NoLast
    /\ sigs = SigTable
    /\ threads = [t \in Threads |-> ThreadReturned("none", NoCall, <<>>, 0, <<>>)]
    /\ FlowIdle

\* A second passes.
TickShared ==
    /\ clock < DocTimestamp + MaxTicks
    /\ clock' = clock + 1
    /\ UNCHANGED <<credVars, paramVars, auth, rng, changed, last, sigs, threads, flowVars>>

\* auth_header, line 183: let nonce = gen_alphanumeric_nonce(..)
ThreadNonce(t) ==
    \E request \in ThreadRequests, seed \in RngSeeds :
        /\ threads[t].pc = "idle"
        /\ threads' = [threads EXCEPT ![t] =
                [pc |-> "nonce", request |-> request,
                 nonce |-> GenAlphanumericNonce(RngStream(seed)), timestamp |-> 0,
                 signature |-> <<>>, kind |-> "none", value |-> <<>>]]
        /\ UNCHANGED <<credVars, paramVars, signVars, flowVars>>

\* auth_header, line 184: let timestamp = Utc::now().timestamp()
ThreadTimestamp(t) ==
    /\ threads[t].pc = "nonce"
    /\ threads' = [threads EXCEPT ![t].pc = "timestamp", ![t].timestamp = clock]
    /\ UNCHANGED <<credVars, paramVars, signVars, flowVars>>

ThreadSignature_OtherThreadsNonce(t) ==
    /\ threads[t].pc = "timestamp"
    /\ threads' = [threads EXCEPT
            ![t].pc = "signature",
            ![t].signature =
                LET other == CHOOSE u \in Threads : u # t
                    nonce == IF threads[other].nonce # <<>> THEN threads[other].nonce
                             ELSE threads[t].nonce
                IN  Signed(auth, threads[t].request, nonce, threads[t].timestamp)]
    /\ UNCHANGED <<credVars, paramVars, signVars, flowVars>>

\* auth_header, line 185: let signature = self.signature(request, &nonce, timestamp)
ThreadSignature(t) ==
    /\ threads[t].pc = "timestamp"
    /\ threads' = [threads EXCEPT
            ![t].pc = "signature",
            ![t].signature =
                Signed(auth, threads[t].request, threads[t].nonce, threads[t].timestamp)]
    /\ UNCHANGED <<credVars, paramVars, signVars, flowVars>>

ThreadHeader_ReadsClockAgain(t) ==
    /\ threads[t].pc = "signature"
    /\ threads' = [threads EXCEPT ![t] =
            ThreadReturned("auth_header", threads[t].request, threads[t].nonce,
                           threads[t].timestamp,
                           AuthHeaderText(auth, threads[t].nonce, threads[t].signature,
                                          clock))]
    /\ UNCHANGED <<credVars, paramVars, signVars, flowVars>>

\* auth_header, lines 187-194: the header is returned.
ThreadHeader(t) ==
    /\ threads[t].pc = "signature"
    /\ threads' = [threads EXCEPT ![t] =
            ThreadReturned("auth_header", threads[t].request, threads[t].nonce,
                           threads[t].timestamp,
                           AuthHeaderText(auth, threads[t].nonce, threads[t].signature,
                                          threads[t].timestamp))]
    /\ UNCHANGED <<credVars, paramVars, signVars, flowVars>>

\* let rotated = auth.with_access_token(t, s): a new value is returned.
ThreadRotate(t) ==
    \E token \in SignTokens :
        /\ threads[t].pc = "idle"
        /\ threads' = [threads EXCEPT ![t] =
                ThreadReturned("with_access_token", NoCall, <<>>, 0,
                               WithAccessToken(auth, token.t, token.s))]
        /\ UNCHANGED <<credVars, paramVars, signVars, flowVars>>

NextShared ==
    \/ TickShared
    \/ \E t \in Threads : ThreadNonce(t)
    \/ \E t \in Threads : ThreadTimestamp(t)
    \/ \E t \in Threads : ThreadSignature(t)
    \/ \E t \in Threads : ThreadHeader(t)
    \/ \E t \in Threads : ThreadRotate(t)

SpecShared == InitShared /\ [][NextShared]_vars

(***************************************************************************)
(* Claims                                                                  *)
(***************************************************************************)

\* The number of occurrences of byte b in string s.
Count(s, b) == Cardinality({i \in 1..Len(s) : s[i] = b})

\* Whether s contains t as a contiguous substring.
Contains(s, t) ==
    \E i \in 0..(Len(s) - Len(t)) : \A j \in 1..Len(t) : s[i + j] = t[j]

\* The signing key up to and including its first '&'.
KeyPrefix(c) == SubSeq(c.signing_key, 1, Find(c.signing_key, 38))

DocRaw ==
    [k |-> DocApiKey, ks |-> DocApiKeySecret, t |-> DocAccessToken,
     s |-> DocAccessTokenSecret]

\* C1: every credential reached by OAuth10a::new and any number of
\* with_access_token calls has a signing key with exactly one '&', the
\* percent-encoded consumer secret before it and the percent-encoded current
\* token secret after it; with_access_token never panics.
C1_SigningKeyHasOneAmpersand ==
    /\ "panic" \notin DOMAIN cred
    /\ Count(cred.signing_key, 38) = 1
    /\ cred.signing_key = PercentEncode(raw.ks) \o <<38>> \o PercentEncode(raw.s)
    /\ Find(cred.signing_key, 38) = Len(PercentEncode(raw.ks)) + 1

\* C1's case: at least two rotations behind a consumer secret with a raw
\* '&' in it, the current token secret being "%26".
C1_Witness ==
    /\ rotated
    /\ prev # New(orig.k, orig.ks, orig.t, orig.s)
    /\ Count(raw.ks, 38) > 0
    /\ raw.s = <<37, 50, 54>>

\* C2: new(k, ks, t, s).with_access_token(t2, s2) has the three fields of
\* new(k, ks, t2, s2); the signing key's prefix up to and including '&' is
\* the one before the rotation; and the documented credential, rotated away
\* and back, signs the documented request to the documented signature.
C2_RotationEqualsNew ==
    rotated =>
        /\ cred = New(raw.k, raw.ks, raw.t, raw.s)
        /\ KeyPrefix(cred) = KeyPrefix(prev)
        /\ (raw = orig /\ orig = DocRaw) =>
                Signature(cred, DocRequest, DocNonce, DocTimestamp) = DocSignature

\* C2's case: the documented credential rotated to another token pair and
\* back to its own.
C2_Witness ==
    /\ rotated
    /\ raw = orig
    /\ orig = DocRaw
    /\ prev # cred

\* The pieces of s between the occurrences of byte b.
Split(s, b) ==
    LET at == {i \in 1..Len(s) : s[i] = b}
        n == Cardinality(at)
        cut(k) == IF k = 0 THEN 0
                  ELSE IF k = n + 1 THEN Len(s) + 1
                  ELSE CHOOSE i \in at : Cardinality({j \in at : j <= i}) = k
    IN  [k \in 1..(n + 1) |-> SubSeq(s, cut(k - 1) + 1, cut(k) - 1)]

\* The (key, value) of a "key=value" piece, cut at its first '='.
PairOf(piece) ==
    <<SubSeq(piece, 1, Find(piece, 61) - 1),
      SubSeq(piece, Find(piece, 61) + 1, Len(piece))>>

\* The value of a hexadecimal digit.
HexVal(b) ==
    IF 48 <= b /\ b <= 57 THEN b - 48
    ELSE IF 65 <= b /\ b <= 70 THEN b - 55
    ELSE IF 97 <= b /\ b <= 102 THEN b - 87
    ELSE 0

\* One pass of percent-decoding: every "%XY" becomes the byte XY, every
\* other byte stands.  No '%' of an encoded string is one of the X or Y.
DecodeOnce(s) ==
    Concat([i \in 1..Len(s) |->
        IF s[i] = 37 /\ i + 2 <= Len(s)
        THEN <<HexVal(s[i + 1]) * 16 + HexVal(s[i + 2])>>
        ELSE IF (i > 1 /\ s[i - 1] = 37) \/ (i > 2 /\ s[i - 2] = 37)
        THEN <<>>
        ELSE <<s[i]>>])

\* The permutations of 1..n.
Perms(n) == {q \in [1..n -> 1..n] : \A i, j \in 1..n : q[i] = q[j] => i = j}

\* The request with its parameter list rearranged by the permutation q.
Permuted(request, q) ==
    [request EXCEPT !.data.params =
        [i \in 1..Len(request.data.params) |-> request.data.params[q[i]]]]

\* The pairs of the parameter string in pout, in the order they stand in it.
Emitted == [i \in 1..Len(Split(pout.value, 38)) |-> PairOf(Split(pout.value, 38)[i])]

\* C3: whatever the order in which a request lists its parameters, the
\* parameter string, the signature base and the signature are the same:
\* the result of a call equals the result of the same call on the request
\* with its list permuted, for every permutation.
C3_PermutedParamsSignAlike ==
    pout.fn # "none" =>
        \A q \in Perms(Len(pcall.request.data.params)) :
            LET permuted == Permuted(pcall.request, q)
            IN  CASE pout.fn = "parameter_string" ->
                        pout.value = ParameterString(pcall.self, permuted, pcall.nonce,
                                                     pcall.timestamp)
                  [] pout.fn = "signature_base" ->
                        pout.value = SignatureBase(pcall.self, permuted, pcall.nonce,
                                                   pcall.timestamp)
                  [] pout.fn = "signature" ->
                        pout.value = Signature(pcall.self, permuted, pcall.nonce,
                                               pcall.timestamp)

\* C3's case: a signature computed for a form request whose two pairs
\* differ, so that the other order is another list.
C3_Witness ==
    /\ pout.fn = "signature"
    /\ Len(pcall.request.data.params) = 2
    /\ pcall.request.data.params[1] # pcall.request.data.params[2]

\* C4: the parameter string is "key=value" pieces joined by '&' with no
\* separator at either end; the pieces stand in strictly ascending order of
\* (encoded key, encoded value), compared byte-wise, so an identical pair
\* stands once; and the pieces are exactly the six protocol pairs and the
\* encoded request pairs, so pairs that share a key and differ in their
\* value all stand, ordered by value.
C4_ParameterStringSortedJoin ==
    pout.fn = "parameter_string" =>
        /\ pout.value # <<>>
        /\ pout.value[1] # 38
        /\ pout.value[Len(pout.value)] # 38
        /\ \A i \in 1..Len(Emitted) : Count(Split(pout.value, 38)[i], 61) = 1
        /\ \A i \in 1..(Len(Emitted) - 1) : PairLess(Emitted[i], Emitted[i + 1])
        /\ Range(Emitted) =
                ProtocolParams(pcall.self, pcall.nonce, pcall.timestamp)
                    \cup {<<PercentEncode(p[1]), PercentEncode(p[2])>> :
                            p \in Range(pcall.request.data.params)}

\* C4's case: the list ("b", "0"), ("b", "="): one key, two values, whose
\* encoded order ("%3D" before "0") is the reverse of the order listed.
C4_Witness ==
    /\ pout.fn = "parameter_string"
    /\ pcall.request.data.params = <<<<<<98>>, <<48>>>>, <<<<98>>, <<61>>>>>>

\* The keys of the six protocol parameters: oauth_consumer_key, oauth_nonce,
\* oauth_signature_method, oauth_timestamp, oauth_token, oauth_version.
ProtocolKeys ==
    {<<111, 97, 117, 116, 104, 95, 99, 111, 110, 115, 117, 109, 101, 114, 95, 107, 101, 121>>,
     <<111, 97, 117, 116, 104, 95, 110, 111, 110, 99, 101>>,
     <<111, 97, 117, 116, 104, 95, 115, 105, 103, 110, 97, 116, 117, 114, 101, 95, 109, 101, 116, 104, 111, 100>>,
     <<111, 97, 117, 116, 104, 95, 116, 105, 109, 101, 115, 116, 97, 109, 112>>,
     <<111, 97, 117, 116, 104, 95, 116, 111, 107, 101, 110>>,
     <<111, 97, 117, 116, 104, 95, 118, 101, 114, 115, 105, 111, 110>>}

\* Whether the call in pcall is on a request without parameters: data is
\* (), JsonData, or a QueryData or FormData of the empty list.
NoRequestParams ==
    /\ "request" \in DOMAIN pcall
    /\ pcall.request.data.params = <<>>

\* A base64 text of a SHA-1 MAC: 27 characters of the alphabet and one '='.
IsSignatureText(v) ==
    /\ Len(v) = 28
    /\ v[28] = 61
    /\ \A i \in 1..27 : v[i] \in Range(Base64Alphabet)

\* C5, as the code has it: for a request without parameters the parameter
\* string is not empty and holds exactly six pairs, one for each of the six
\* protocol keys and nothing else; the signature base is not empty; and the
\* signature is computed: a base64 text of a 20-byte MAC.
C5_NoParamsSixProtocolPairs ==
    NoRequestParams =>
        /\ pout.fn = "parameter_string" =>
                /\ pout.value # <<>>
                /\ Len(Emitted) = 6
                /\ {Emitted[i][1] : i \in 1..Len(Emitted)} = ProtocolKeys
                /\ Range(Emitted) =
                        ProtocolParams(pcall.self, pcall.nonce, pcall.timestamp)
        /\ pout.fn = "signature_base" => Count(pout.value, 38) = 2
        /\ pout.fn = "signature" => IsSignatureText(pout.value)

\* C5's case: the parameter string of a JsonData request, and the signature
\* of a request with FormData of the empty list.
C5_Witness ==
    /\ NoRequestParams
    /\ \/ pout.fn = "parameter_string" /\ pcall.request.data.kind = "Json"
       \/ pout.fn = "signature" /\ pcall.request.data.kind = "Form"

\* C5 as stated: the parameter string of a request without parameters holds
\* exactly five protocol pairs.
C5_FiveProtocolPairs ==
    (NoRequestParams /\ pout.fn = "parameter_string") => Len(Emitted) = 5

\* C6: in the parameter string every request key and value stands
\* percent-encoded exactly once and the consumer key and the token stand as
\* the credential holds them, not encoded again: one pass of decoding gives
\* back the strings the caller passed.  No byte of the string is other than
\* an unreserved character, '%', '=' or '&'; the '&' count is the number of
\* pairs less one; every piece has exactly one '='.
C6_ParamsEncodedOnce ==
    pout.fn = "parameter_string" =>
        LET decoded == {<<DecodeOnce(Emitted[i][1]), DecodeOnce(Emitted[i][2])>> :
                            i \in 1..Len(Emitted)}
            passed ==
                Range(pcall.request.data.params)
                    \cup {<<(* oauth_consumer_key *)
                            <<111, 97, 117, 116, 104, 95, 99, 111, 110, 115, 117, 109,
                              101, 114, 95, 107, 101, 121>>,
                            pcall.raw.k>>,
                          <<(* oauth_nonce *)
                            <<111, 97, 117, 116, 104, 95, 110, 111, 110, 99, 101>>,
                            pcall.nonce>>,
                          <<(* oauth_signature_method, HMAC-SHA1 *)
                            <<111, 97, 117, 116, 104, 95, 115, 105, 103, 110, 97, 116,
                              117, 114, 101, 95, 109, 101, 116, 104, 111, 100>>,
                            <<72, 77, 65, 67, 45, 83, 72, 65, 49>>>>,
                          <<(* oauth_timestamp *)
                            <<111, 97, 117, 116, 104, 95, 116, 105, 109, 101, 115, 116,
                              97, 109, 112>>,
                            I64ToString(pcall.timestamp)>>,
                          <<(* oauth_token *)
                            <<111, 97, 117, 116, 104, 95, 116, 111, 107, 101, 110>>,
                            pcall.raw.t>>,
                          <<(* oauth_version, 1.0 *)
                            <<111, 97, 117, 116, 104, 95, 118, 101, 114, 115, 105, 111,
                              110>>,
                            <<49, 46, 48>>>>}
        IN  /\ \A i \in 1..Len(pout.value) :
                    IsUnreserved(pout.value[i]) \/ pout.value[i] \in {37, 38, 61}
            /\ \A i \in 1..Len(Emitted) : Count(Split(pout.value, 38)[i], 61) = 1
            /\ decoded = passed
            /\ Count(pout.value, 38) = Cardinality(passed) - 1
            /\ Len(Emitted) = Cardinality(passed)

\* C6's case: a consumer key and a token with '&' in them, and a request
\* pair with '=', '&', ' ', '+' and a non-ASCII character in its key.
C6_Witness ==
    /\ pout.fn = "parameter_string"
    /\ Count(pcall.raw.k, 38) > 0
    /\ Count(pcall.raw.t, 38) > 0
    /\ \E p \in Range(pcall.request.data.params) :
            /\ {61, 38, 32, 43} \subseteq Range(p[1])
            /\ \E i \in 1..Len(p[1]) : p[1][i] > 127

\* C7: the signature base is METHOD '&' percent_encode(base_url) '&'
\* percent_encode(parameter_string): it has exactly two '&'; the first piece
\* is the upper-case method; the second is the encoded base URL and
\* decodes to it; the third decodes to the parameter string.
C7_SignatureBaseThreePieces ==
    pout.fn = "signature_base" =>
        LET pieces == Split(pout.value, 38)
        IN  /\ Count(pout.value, 38) = 2
            /\ Len(pieces) = 3
            /\ pieces[1] \in {<<71, 69, 84>>, <<80, 79, 83, 84>>, <<80, 85, 84>>,
                              <<68, 69, 76, 69, 84, 69>>}
            /\ pieces[1] = MethodStr(pcall.request.method)
            /\ pieces[2] = PercentEncode(pcall.request.base_url)
            /\ DecodeOnce(pieces[2]) = pcall.request.base_url
            /\ DecodeOnce(pieces[3]) =
                    ParameterString(pcall.self, pcall.request, pcall.nonce,
                                    pcall.timestamp)
            /\ pieces[3] =
                    PercentEncode(ParameterString(pcall.self, pcall.request,
                                                  pcall.nonce, pcall.timestamp))

\* C7's case: a base URL with '&' and '=' in it and a request with
\* parameters, so that both encoded pieces hold escaped separators.
C7_Witness ==
    /\ pout.fn = "signature_base"
    /\ Count(pcall.request.base_url, 38) > 0
    /\ Count(pcall.request.base_url, 61) > 0
    /\ Len(pcall.request.data.params) = 2

C9_DocumentedSignature ==
    (/\ last.kind = "signature"
     /\ last.self = New(DocApiKey, DocApiKeySecret, DocAccessToken, DocAccessTokenSecret)
     /\ last.request = DocRequest
     /\ last.nonce = DocNonce
     /\ last.timestamp = DocTimestamp)
        => last.signature = DocSignature

\* C9's case: the documented call, made with the clock past the documented
\* time.
C9_Witness ==
    /\ last.kind = "signature"
    /\ last.self = New(DocApiKey, DocApiKeySecret, DocAccessToken, DocAccessTokenSecret)
    /\ last.request = DocRequest
    /\ last.nonce = DocNonce
    /\ last.timestamp = DocTimestamp
    /\ clock # DocTimestamp

\* The seven field names of the Authorization header, in its order.
HeaderKeys ==
    <<<<111, 97, 117, 116, 104, 95, 99, 111, 110, 115, 117, 109, 101, 114, 95,
        107, 101, 121>>,
      <<111, 97, 117, 116, 104, 95, 110, 111, 110, 99, 101>>,
      <<111, 97, 117, 116, 104, 95, 115, 105, 103, 110, 97, 116, 117, 114, 101>>,
      <<111, 97, 117, 116, 104, 95, 115, 105, 103, 110, 97, 116, 117, 114,
        101, 95, 109, 101, 116, 104, 111, 100>>,
      <<111, 97, 117, 116, 104, 95, 116, 105, 109, 101, 115, 116, 97, 109, 112>>,
      <<111, 97, 117, 116, 104, 95, 116, 111, 107, 101, 110>>,
      <<111, 97, 117, 116, 104, 95, 118, 101, 114, 115, 105, 111, 110>>>>

\* The fields of the header in last: the text after "OAuth ", cut at every
\* ',', without the space that follows each ','.
HeaderFields ==
    LET cut == Split(SubSeq(last.header, 7, Len(last.header)), 44)
    IN  [i \in 1..Len(cut) |-> IF i = 1 THEN cut[i] ELSE Tail(cut[i])]

\* The name of a field name="value", and its value between the quotes.
FieldName(field) == SubSeq(field, 1, Find(field, 61) - 1)

FieldValue(field) == SubSeq(field, Find(field, 61) + 2, Len(field) - 1)

\* C10: the header is "OAuth " and seven fields name="value" separated by
\* ", ", in the order oauth_consumer_key, oauth_nonce, oauth_signature,
\* oauth_signature_method, oauth_timestamp, oauth_token, oauth_version; the
\* values are the encoded consumer key, the nonce, the percent-encoded
\* signature, HMAC-SHA1, the timestamp in decimal, the encoded token and
\* 1.0; the signature field holds no raw '+', '/' or '='.
C10_AuthHeaderFormat ==
    last.kind = "auth_header" =>
        LET cut == Split(SubSeq(last.header, 7, Len(last.header)), 44)
            values == [i \in 1..Len(HeaderFields) |-> FieldValue(HeaderFields[i])]
        IN  /\ SubSeq(last.header, 1, 6) = <<79, 65, 117, 116, 104, 32>>
            /\ Len(cut) = 7
            /\ \A i \in 2..7 : cut[i][1] = 32
            /\ \A i \in 1..7 :
                    /\ FieldName(HeaderFields[i]) = HeaderKeys[i]
                    /\ HeaderFields[i][Len(HeaderKeys[i]) + 2] = 34
                    /\ HeaderFields[i][Len(HeaderFields[i])] = 34
                    /\ Count(HeaderFields[i], 34) = 2
            /\ values[1] = last.self.api_key_encoded
            /\ values[2] = last.nonce
            /\ values[3] = PercentEncode(last.signature)
            /\ DecodeOnce(values[3]) = last.signature
            /\ IsSignatureText(last.signature)
            /\ {43, 47, 61} \cap Range(values[3]) = {}
            /\ values[4] = <<72, 77, 65, 67, 45, 83, 72, 65, 49>>
            /\ values[5] = I64ToString(last.timestamp)
            /\ values[6] = last.self.access_token_encoded
            /\ values[7] = <<49, 46, 48>>

\* C10's case: a header whose signature has a '+', a '/' and the '=' of its
\* padding in it.
C10_Witness ==
    /\ last.kind = "auth_header"
    /\ {43, 47, 61} \subseteq Range(last.signature)

\* C11: whatever the generator returns, gen_alphanumeric_nonce returns 64
\* characters, each of 0-9, A-Z, a-z: every character sampled is in the
\* buffer, in the order sampled, none dropped; percent-encoding the nonce
\* leaves it as it is.
C11_NonceIs64Alphanumerics ==
    pout.fn = "gen_alphanumeric_nonce" =>
        /\ Len(pout.value) = 64
        /\ \A i \in 1..Len(pout.value) :
                \/ (48 <= pout.value[i] /\ pout.value[i] <= 57)
                \/ (65 <= pout.value[i] /\ pout.value[i] <= 90)
                \/ (97 <= pout.value[i] /\ pout.value[i] <= 122)
        /\ \A i \in 1..64 : pout.value[i] = pcall.samples[i]
        /\ PercentEncode(pout.value) = pout.value

\* C11's case: a nonce with a digit, an upper-case and a lower-case letter
\* in it, the last character sampled being other than the first.
C11_Witness ==
    /\ pout.fn = "gen_alphanumeric_nonce"
    /\ \E i, j, k \in 1..Len(pout.value) :
            /\ pout.value[i] <= 57
            /\ 65 <= pout.value[j] /\ pout.value[j] <= 90
            /\ 97 <= pout.value[k]
    /\ pcall.samples[64] # pcall.samples[1]

\* C12: calls of auth_header and with_access_token on one shared credential,
\* interleaved in any way, leave its three fields as they were made; every
\* header returned is the header of the shared credential, the call's own
\* request and the nonce and timestamp drawn in that call, and every rotation
\* returned is a new value made from the shared credential.
C12_SharedCredentialNeverMutated ==
    threads # <<>> =>
        /\ auth = New(DocApiKey, DocApiKeySecret, DocAccessToken, DocAccessTokenSecret)
        /\ \A t \in Threads :
            /\ threads[t].kind = "auth_header" =>
                /\ IsSignatureText(Signed(auth, threads[t].request, threads[t].nonce,
                                          threads[t].timestamp))
                /\ threads[t].value =
                       AuthHeaderText(auth, threads[t].nonce,
                                      Signed(auth, threads[t].request, threads[t].nonce,
                                             threads[t].timestamp),
                                      threads[t].timestamp)
            /\ threads[t].kind = "with_access_token" =>
                \E token \in SignTokens :
                    threads[t].value = WithAccessToken(auth, token.t, token.s)

\* One thread has a header made after the clock moved; the other, which drew
\* a different nonce for a different request in between and returned its own
\* header, then rotated the shared credential to a different token.
C12_Witness ==
    /\ threads # <<>>
    /\ \E t, u \in Threads :
        /\ t # u
        /\ threads[t].kind = "auth_header"
        /\ threads[t].timestamp > DocTimestamp
        /\ threads[u].kind = "with_access_token"
        /\ threads[u].value # auth


(***************************************************************************)
(* SpecFlow: the credential flow of client.rs.  A program holds            *)
(* AsyncClient values, clones them, calls get_request_token on the         *)
(* AsyncClient<OAuth10a> ones and get_access_token on the                  *)
(* AsyncClient<OAuth10aRequest> ones.  What reqwest and the server do is   *)
(* an input of each call: the request cannot be built, it cannot be        *)
(* executed, or a response comes back with a status, rate-limit headers    *)
(* and a body that can or cannot be read.                                  *)
(***************************************************************************)

\* Option: None and Some(value).
None == [some |-> FALSE]
Some(value) == [some |-> TRUE, value |-> value]

\* Result: Ok(value) and Err(ErrorRepr { kind, limit_info }.boxed()).
Ok(value) == [ok |-> TRUE, value |-> value]
Err(kind, limit_info) == [ok |-> FALSE, kind |-> kind, limit_info |-> limit_info]

\* ErrorKind
BadAuthHeader == [variant |-> "BadAuthHeader"]
Transfer(err) == [variant |-> "Transfer", err |-> err]
Custom(message) == [variant |-> "Custom", message |-> message]

\* split_on_byte: the bytes before the first delim and the bytes after it.
SplitOnByte(bytes, delim) ==
    LET index == Find(bytes, delim)
    IN  IF index # 0
        THEN <<SubSeq(bytes, 1, index - 1), SubSeq(bytes, index + 1, Len(bytes))>>
        ELSE <<bytes, <<>>>>

IsHexDigit(b) == (48 <= b /\ b <= 57) \/ (65 <= b /\ b <= 70) \/ (97 <= b /\ b <= 102)

\* percent_decode_utf8(bytes, FormDecode): '+' is a space, "%XY" the byte XY.
\* (The bodies sampled hold well-formed escapes of valid UTF-8 only.)
RECURSIVE PercentDecodeForm(_)
PercentDecodeForm(bytes) ==
    IF bytes = <<>> THEN <<>>
    ELSE IF bytes[1] = 43 THEN <<32>> \o PercentDecodeForm(Tail(bytes))
    ELSE IF bytes[1] = 37 /\ Len(bytes) >= 3 /\ IsHexDigit(bytes[2]) /\ IsHexDigit(bytes[3])
    THEN <<HexVal(bytes[2]) * 16 + HexVal(bytes[3])>>
         \o PercentDecodeForm(SubSeq(bytes, 4, Len(bytes)))
    ELSE <<bytes[1]>> \o PercentDecodeForm(Tail(bytes))

\* FormDecoder: the (key, val) items the iterator yields, in order.
RECURSIVE FormDecoder(_)
FormDecoder(bytes) ==
    IF bytes = <<>> THEN <<>>
    ELSE LET split == SplitOnByte(bytes, 38)
             pair == SplitOnByte(split[1], 61)
         IN  <<<<PercentDecodeForm(pair[1]), PercentDecodeForm(pair[2])>>>>
             \o FormDecoder(split[2])

\* "oauth_token", "oauth_token_secret", "oauth_verifier", "oauth_callback"
OauthTokenKey ==
    <<111, 97, 117, 116, 104, 95, 116, 111, 107, 101, 110>>

OauthTokenSecretKey ==
    <<111, 97, 117, 116, 104, 95, 116, 111, 107, 101, 110, 95, 115, 101,
      99, 114, 101, 116>>

OauthVerifierKey ==
    <<111, 97, 117, 116, 104, 95, 118, 101, 114, 105, 102, 105, 101, 114>>

OauthCallbackKey ==
    <<111, 97, 117, 116, 104, 95, 99, 97, 108, 108, 98, 97, 99, 107>>

MatchLast_FirstStays(items, key) ==
    LET at == {i \in 1..Len(items) : items[i][1] = key}
    IN  IF at = {} THEN None
        ELSE Some(items[CHOOSE i \in at : \A j \in at : i <= j][2])

\* The for loop over FormDecoder::new(&body): every item whose key matches
\* assigns its variable again, so the last one stays.
MatchLast(items, key) ==
    LET at == {i \in 1..Len(items) : items[i][1] = key}
    IN  IF at = {} THEN None
        ELSE Some(items[CHOOSE i \in at : \A j \in at : j <= i][2])

\* StatusCode::is_success
IsSuccess(status) == 200 <= status /\ status < 300

\* StatusCode::canonical_reason, for the statuses the server answers with.
CanonicalReason(status) ==
    CASE status = 200 -> Some(
            <<79, 75>>)
      [] status = 204 -> Some(
            <<78, 111, 32, 67, 111, 110, 116, 101, 110, 116>>)
      [] status = 401 -> Some(
            <<85, 110, 97, 117, 116, 104, 111, 114, 105, 122, 101, 100>>)
      [] status = 503 -> Some(
            <<83, 101, 114, 118, 105, 99, 101, 32, 85, 110, 97, 118, 97,
              105, 108, 97, 98, 108, 101>>)
      [] OTHER -> None

StatusText_ReasonOnly(status) ==
    IF CanonicalReason(status).some THEN CanonicalReason(status).value ELSE <<>>

\* format!("{}", response.status()): the code, a space and the reason.
StatusText(status) ==
    I64ToString(status) \o <<32>>
    \o (IF CanonicalReason(status).some THEN CanonicalReason(status).value
        ELSE
            <<60, 117, 110, 107, 110, 111, 119, 110, 32, 115, 116, 97,
              116, 117, 115, 32, 99, 111, 100, 101, 62>>)

\* A u64 is written as four limbs of 16 bits, the most significant first.
LimbBase == 65536

U64Zero == <<0, 0, 0, 0>>

\* u64::MAX
U64Max == <<LimbBase - 1, LimbBase - 1, LimbBase - 1, LimbBase - 1>>

\* x * m + a for small m and a: the 64 low bits, and whether more were needed.
U64MulAdd(x, m, a) ==
    LET t4 == x[4] * m + a
        t3 == x[3] * m + (t4 \div LimbBase)
        t2 == x[2] * m + (t3 \div LimbBase)
        t1 == x[1] * m + (t2 \div LimbBase)
    IN  [value |-> <<t1 % LimbBase, t2 % LimbBase, t3 % LimbBase, t4 % LimbBase>>,
         overflow |-> t1 \div LimbBase # 0]

\* u64::checked_mul and u64::checked_add with a small right-hand side.
CheckedMul(x, m) ==
    IF U64MulAdd(x, m, 0).overflow THEN None ELSE Some(U64MulAdd(x, m, 0).value)

CheckedAdd(x, a) ==
    IF U64MulAdd(x, 1, a).overflow THEN None ELSE Some(U64MulAdd(x, 1, a).value)

\* x - 1 on u64: the difference, which for x = 0 does not exist (the
\* subtraction overflows).
SubOne(x) ==
    IF x[4] > 0 THEN [overflow |-> FALSE, value |-> <<x[1], x[2], x[3], x[4] - 1>>]
    ELSE IF x[3] > 0
    THEN [overflow |-> FALSE, value |-> <<x[1], x[2], x[3] - 1, LimbBase - 1>>]
    ELSE IF x[2] > 0
    THEN [overflow |-> FALSE, value |-> <<x[1], x[2] - 1, LimbBase - 1, LimbBase - 1>>]
    ELSE IF x[1] > 0
    THEN [overflow |-> FALSE,
          value |-> <<x[1] - 1, LimbBase - 1, LimbBase - 1, LimbBase - 1>>]
    ELSE [overflow |-> TRUE, value |-> U64Max]

\* str::from_utf8(..).ok(): whether the bytes are well-formed UTF-8.
RECURSIVE FromUtf8(_)
FromUtf8(bytes) ==
    LET n == Len(bytes)
        cont(k) == k <= n /\ 128 <= bytes[k] /\ bytes[k] <= 191
    IN  IF n = 0 THEN TRUE
        ELSE IF bytes[1] < 128 THEN FromUtf8(Tail(bytes))
        ELSE IF 194 <= bytes[1] /\ bytes[1] <= 223
        THEN cont(2) /\ FromUtf8(SubSeq(bytes, 3, n))
        ELSE IF 224 <= bytes[1] /\ bytes[1] <= 239
        THEN /\ cont(2)
             /\ cont(3)
             /\ bytes[1] = 224 => bytes[2] >= 160
             /\ bytes[1] = 237 => bytes[2] <= 159
             /\ FromUtf8(SubSeq(bytes, 4, n))
        ELSE IF 240 <= bytes[1] /\ bytes[1] <= 244
        THEN /\ cont(2)
             /\ cont(3)
             /\ cont(4)
             /\ bytes[1] = 240 => bytes[2] >= 144
             /\ bytes[1] = 244 => bytes[2] <= 143
             /\ FromUtf8(SubSeq(bytes, 5, n))
        ELSE FALSE

\* The digit loop of str::parse::<u64>: acc * 10 + digit, both checked.
RECURSIVE ParseDigits(_, _)
ParseDigits(digits, acc) ==
    IF digits = <<>> THEN Some(acc)
    ELSE IF digits[1] < 48 \/ digits[1] > 57 THEN None
    ELSE LET mul == CheckedMul(acc, 10)
         IN  IF ~mul.some THEN None
             ELSE LET add == CheckedAdd(mul.value, digits[1] - 48)
                  IN  IF ~add.some THEN None
                      ELSE ParseDigits(Tail(digits), add.value)

\* val.parse::<u64>().ok(): decimal digits after an optional '+'.
ParseU64(val) ==
    IF val = <<>> THEN None
    ELSE IF Len(val) = 1 /\ val[1] \in {43, 45} THEN None
    ELSE IF val[1] = 43 THEN ParseDigits(Tail(val), U64Zero)
    ELSE ParseDigits(val, U64Zero)

\* parse_int_header
ParseIntHeader(val) == IF FromUtf8(val) THEN ParseU64(val) ELSE None

\* NonZeroU64::new
NonZeroU64New(x) == IF x = U64Zero THEN None ELSE Some(x)

OptU64Encode_NoPlusOne(x) ==
    IF x.some THEN NonZeroU64New(x.value) ELSE None

\* opt_u64_encode
OptU64Encode(x) ==
    IF ~x.some THEN None
    ELSE IF ~CheckedAdd(x.value, 1).some THEN None
    ELSE NonZeroU64New(CheckedAdd(x.value, 1).value)

\* opt_u64_decode: x.get() - 1. Where the subtraction overflows the build
\* decides: a panic with overflow checks, the wrapped value without.
OptU64Decode(x) ==
    IF ~x.some THEN {None}
    ELSE IF SubOne(x.value).overflow
    THEN {[panic |-> TRUE], Some(SubOne(x.value).value)}
    ELSE {Some(SubOne(x.value).value)}

\* LimitInfo::new
LimitInfoNew(limit, remaining, reset_secs) ==
    [limit |-> OptU64Encode(limit),
     remaining |-> OptU64Encode(remaining),
     reset_secs |-> OptU64Encode(reset_secs)]

FromHeaders_Empty(headers) == [limit |-> None, remaining |-> None, reset_secs |-> None]

\* Option::and_then(parse_int_header) on headers.get(..)
GetParsed(header) == IF header.some THEN ParseIntHeader(header.value) ELSE None

\* LimitInfo::from_headers, of the values of the three x-rate-limit headers.
FromHeaders(headers) ==
    LimitInfoNew(GetParsed(headers.limit), GetParsed(headers.remaining),
                 GetParsed(headers.reset))

\* HeaderValue::from_str accepts every byte from 32 up except 127, and tab.
HeaderValueFromStr(text) ==
    \A i \in 1..Len(text) : text[i] = 9 \/ (32 <= text[i] /\ text[i] # 127)

\* "application/x-www-form-urlencoded"
FormContentType ==
    <<97, 112, 112, 108, 105, 99, 97, 116, 105, 111, 110, 47, 120, 45,
      119, 119, 119, 45, 102, 111, 114, 109, 45, 117, 114, 108, 101, 110,
      99, 111, 100, 101, 100>>

\* RequestData::build_http_request on a builder that has the method, the
\* URL and the AUTHORIZATION header.
BuildHttpRequest(request, auth_header) ==
    [method |-> MethodStr(request.method),
     url |-> request.base_url,
     authorization |-> auth_header,
     content_type |-> IF request.data.kind = "Form" THEN Some(FormContentType) ELSE None,
     body |->
        IF request.data.kind = "Form"
        THEN JoinParams(<<>>, [i \in 1..Len(request.data.params) |->
                <<PercentEncode(request.data.params[i][1]),
                  PercentEncode(request.data.params[i][2])>>])
        ELSE request.data.body]

\* "https://api.twitter.com/oauth/request_token"
RequestTokenEndpoint ==
    <<104, 116, 116, 112, 115, 58, 47, 47, 97, 112, 105, 46, 116, 119,
      105, 116, 116, 101, 114, 46, 99, 111, 109, 47, 111, 97, 117, 116,
      104, 47, 114, 101, 113, 117, 101, 115, 116, 95, 116, 111, 107, 101,
      110>>

\* "https://api.twitter.com/oauth/access_token"
AccessTokenEndpoint ==
    <<104, 116, 116, 112, 115, 58, 47, 47, 97, 112, 105, 46, 116, 119,
      105, 116, 116, 101, 114, 46, 99, 111, 109, 47, 111, 97, 117, 116,
      104, 47, 97, 99, 99, 101, 115, 115, 95, 116, 111, 107, 101, 110>>

\* "https://api.twitter.com/oauth/authorize?oauth_token="
AuthorizeUrlPrefix ==
    <<104, 116, 116, 112, 115, 58, 47, 47, 97, 112, 105, 46, 116, 119,
      105, 116, 116, 101, 114, 46, 99, 111, 109, 47, 111, 97, 117, 116,
      104, 47, 97, 117, 116, 104, 111, 114, 105, 122, 101, 63, 111, 97,
      117, 116, 104, 95, 116, 111, 107, 101, 110, 61>>

\* "no oauth_token in response", "no oauth_token_secret in response"
NoTokenMessage ==
    <<110, 111, 32, 111, 97, 117, 116, 104, 95, 116, 111, 107, 101, 110,
      32, 105, 110, 32, 114, 101, 115, 112, 111, 110, 115, 101>>

NoTokenSecretMessage_SameAsToken == NoTokenMessage

NoTokenSecretMessage ==
    <<110, 111, 32, 111, 97, 117, 116, 104, 95, 116, 111, 107, 101, 110,
      95, 115, 101, 99, 114, 101, 116, 32, 105, 110, 32, 114, 101, 115,
      112, 111, 110, 115, 101>>

\* The callback URLs and verifiers the program passes: "oob",
\* "http://x/?a=b c", "1234" and "a b&c=d+é".
CallbackUrls ==
    {
      <<111, 111, 98>>,
      <<104, 116, 116, 112, 58, 47, 47, 120, 47, 63, 97, 61, 98, 32, 99>>}

Verifiers ==
    {
      <<49, 50, 51, 52>>,
      <<97, 32, 98, 38, 99, 61, 100, 43, 195, 169>>}

\* What the server sends as the body:
\*   1  oauth_token=a%2Fb+c&oauth_token_secret=k%26%3D&oauth_callback_confirmed=true
\*   2  oauth_token_secret=x&oauth_token=Z7&oauth_token_secret=k%26%3D&oauth_token=a%2Fb+c
\*   3  oauth_token=&oauth_token_secret
\*   4  oauth_token=Z7&oauth_tokensecret=x
\*   5  oauth_token_secret=x&Oauth_token=Z7
\*   6  (nothing)
Bodies ==
    <<
      <<111, 97, 117, 116, 104, 95, 116, 111, 107, 101, 110, 61, 97, 37,
        50, 70, 98, 43, 99, 38, 111, 97, 117, 116, 104, 95, 116, 111, 107,
        101, 110, 95, 115, 101, 99, 114, 101, 116, 61, 107, 37, 50, 54,
        37, 51, 68, 38, 111, 97, 117, 116, 104, 95, 99, 97, 108, 108, 98,
        97, 99, 107, 95, 99, 111, 110, 102, 105, 114, 109, 101, 100, 61,
        116, 114, 117, 101>>,
      <<111, 97, 117, 116, 104, 95, 116, 111, 107, 101, 110, 95, 115, 101,
        99, 114, 101, 116, 61, 120, 38, 111, 97, 117, 116, 104, 95, 116,
        111, 107, 101, 110, 61, 90, 55, 38, 111, 97, 117, 116, 104, 95,
        116, 111, 107, 101, 110, 95, 115, 101, 99, 114, 101, 116, 61, 107,
        37, 50, 54, 37, 51, 68, 38, 111, 97, 117, 116, 104, 95, 116, 111,
        107, 101, 110, 61, 97, 37, 50, 70, 98, 43, 99>>,
      <<111, 97, 117, 116, 104, 95, 116, 111, 107, 101, 110, 61, 38, 111,
        97, 117, 116, 104, 95, 116, 111, 107, 101, 110, 95, 115, 101, 99,
        114, 101, 116>>,
      <<111, 97, 117, 116, 104, 95, 116, 111, 107, 101, 110, 61, 90, 55,
        38, 111, 97, 117, 116, 104, 95, 116, 111, 107, 101, 110, 115, 101,
        99, 114, 101, 116, 61, 120>>,
      <<111, 97, 117, 116, 104, 95, 116, 111, 107, 101, 110, 95, 115, 101,
        99, 114, 101, 116, 61, 120, 38, 79, 97, 117, 116, 104, 95, 116,
        111, 107, 101, 110, 61, 90, 55>>,
      <<>>>>

\* The statuses the server answers with.
Statuses == {200, 204, 401, 503}

\* The x-rate-limit headers of a response: absent, or "15", "0" and "900".
HeaderSets ==
    {[limit |-> None, remaining |-> None, reset |-> None],
     [limit |-> Some(<<49, 53>>), remaining |-> Some(<<48>>),
      reset |-> Some(<<57, 48, 48>>)]}

\* What happens to the request outside the crate: RequestBuilder::build
\* fails, Client::execute fails, or a response arrives whose body
\* Response::bytes can (read) or cannot deliver.
Transports ==
    {[stage |-> "build"], [stage |-> "execute"]}
    \cup {[stage |-> "response", status |-> status, headers |-> headers,
           read |-> read, body |-> Bodies[b]] :
            status \in Statuses, headers \in HeaderSets, read \in BOOLEAN,
            b \in DOMAIN Bodies}

\* The requests of the two calls.
RequestTokenRequest(callback_url) ==
    NewWithData("Post", RequestTokenEndpoint,
                FormData(<<<<OauthCallbackKey, callback_url>>>>))

AccessTokenRequest_VerifierInQuery(verifier) ==
    NewWithData("Post", AccessTokenEndpoint,
                QueryData(<<<<OauthVerifierKey, verifier>>>>))

AccessTokenRequest(verifier) ==
    NewWithData("Post", AccessTokenEndpoint,
                FormData(<<<<OauthVerifierKey, verifier>>>>))

\* The token pairs a response of Bodies can carry.
BodyTokens ==
    {<<MatchLast(FormDecoder(Bodies[b]), OauthTokenKey).value,
       MatchLast(FormDecoder(Bodies[b]), OauthTokenSecretKey).value>> :
        b \in {c \in DOMAIN Bodies :
                /\ MatchLast(FormDecoder(Bodies[c]), OauthTokenKey).some
                /\ MatchLast(FormDecoder(Bodies[c]), OauthTokenSecretKey).some}}

\* The nonce auth_header draws from the thread's generator.
FlowNonce == GenAlphanumericNonce(RngStream(rng))

\* signature's value for each of the calls, a set of (credential, request)
\* pairs, with the nonce and the time of the run.
FlowSigTable(calls) ==
    [call \in calls |-> Signature(call[1], call[2], FlowNonce, clock)]

FlowSigned(self, request) ==
    IF <<self, request>> \in DOMAIN sigs THEN sigs[<<self, request>>] ELSE <<>>

\* AsyncClient { http_client, auth: Arc::new(auth) }
Client(type, credential) == [type |-> type, auth |-> credential]

\* "Bearer "
BearerPrefix ==
    <<66, 101, 97, 114, 101, 114, 32>>

\* BearerToken::new
BearerTokenNew(token) == [auth_header |-> BearerPrefix \o token]

\* Auth::auth_header, of BearerToken and of OAuth10a and OAuth10aRequest.
AuthHeaderOf(self, request) ==
    IF self.type = "BearerToken" THEN self.auth.auth_header
    ELSE AuthHeaderText(self.auth, FlowNonce, FlowSigned(self.auth, request), clock)

RawRequest_SendsWithoutHeader(self, request, env) ==
    LET auth_string == AuthHeaderOf(self, request)
        sent_header == IF HeaderValueFromStr(auth_string) THEN auth_string ELSE <<>>
    IN  IF env.stage = "build"
        THEN [sent |-> <<>>, value |-> Err(Transfer("build"), None)]
        ELSE IF env.stage = "execute"
        THEN [sent |-> <<BuildHttpRequest(request, sent_header)>>,
              value |-> Err(Transfer("execute"), None)]
        ELSE [sent |-> <<BuildHttpRequest(request, sent_header)>>,
              value |-> Ok([response |-> env, limit_info |-> FromHeaders(env.headers)])]

RawRequest_ExecutesAgain(self, request, env) ==
    LET auth_string == AuthHeaderOf(self, request)
    IN  IF env.stage = "build"
        THEN [sent |-> <<>>, value |-> Err(Transfer("build"), None)]
        ELSE IF env.stage = "execute"
        THEN [sent |-> <<BuildHttpRequest(request, auth_string),
                         BuildHttpRequest(request, auth_string)>>,
              value |-> Err(Transfer("execute"), None)]
        ELSE [sent |-> <<BuildHttpRequest(request, auth_string)>>,
              value |-> Ok([response |-> env, limit_info |-> FromHeaders(env.headers)])]

\* raw_request from the point where auth_header has returned auth_string.
RawRequestWith(request, env, auth_string) ==
    IF ~HeaderValueFromStr(auth_string)
    THEN [sent |-> <<>>, value |-> Err(BadAuthHeader, None)]
    ELSE IF env.stage = "build"
    THEN [sent |-> <<>>, value |-> Err(Transfer("build"), None)]
    ELSE IF env.stage = "execute"
    THEN [sent |-> <<BuildHttpRequest(request, auth_string)>>,
          value |-> Err(Transfer("execute"), None)]
    ELSE [sent |-> <<BuildHttpRequest(request, auth_string)>>,
          value |-> Ok([response |-> env, limit_info |-> FromHeaders(env.headers)])]

\* raw_request: the HTTP requests handed to Client::execute, and the value
\* returned.
RawRequest(self, request, env) ==
    RawRequestWith(request, env, AuthHeaderOf(self, request))

ReadTokenPair_BodyBeforeStatus(response, limit_info) ==
    LET items == FormDecoder(response.body)
        token == MatchLast(items, OauthTokenKey)
        token_secret == MatchLast(items, OauthTokenSecretKey)
    IN  IF ~response.read
        THEN Err(Transfer("bytes"), Some(limit_info))
        ELSE IF ~token.some
        THEN Err(Custom(NoTokenMessage), Some(limit_info))
        ELSE IF ~token_secret.some
        THEN Err(Custom(NoTokenSecretMessage), Some(limit_info))
        ELSE IF ~IsSuccess(response.status)
        THEN Err(Custom(StatusText(response.status)), Some(limit_info))
        ELSE Ok([token |-> token.value, token_secret |-> token_secret.value])

\* The checks of both calls, on the last oauth_token and oauth_token_secret
\* of the decode loop.
CheckTokenPair(response, limit_info, token, token_secret) ==
    IF ~IsSuccess(response.status)
    THEN Err(Custom(StatusText(response.status)), Some(limit_info))
    ELSE IF ~response.read
    THEN Err(Transfer("bytes"), Some(limit_info))
    ELSE IF ~token.some
    THEN Err(Custom(NoTokenMessage), Some(limit_info))
    ELSE IF ~token_secret.some
    THEN Err(Custom(NoTokenSecretMessage), Some(limit_info))
    ELSE Ok([token |-> token.value, token_secret |-> token_secret.value])

\* What both calls do with the response: the status check, the read of the
\* body, the decode loop and the two missing-field errors.
ReadTokenPair(response, limit_info) ==
    CheckTokenPair(response, limit_info,
                   MatchLast(FormDecoder(response.body), OauthTokenKey),
                   MatchLast(FormDecoder(response.body), OauthTokenSecretKey))

\* The token pair of the response raw_request returned, or its error.
TokenPairOf(raw_request) ==
    IF ~raw_request.value.ok THEN raw_request.value
    ELSE ReadTokenPair(raw_request.value.value.response,
                       raw_request.value.value.limit_info)

\* What get_request_token returns for the token pair read, or the error.
RequestTokenValue(self, pair) ==
    IF ~pair.ok THEN pair
    ELSE Ok([client |->
                Client("OAuth10aRequest",
                       WithAccessToken(self.auth, pair.value.token,
                                       pair.value.token_secret)),
             redirect_url |-> AuthorizeUrlPrefix \o PercentEncode(pair.value.token)])

\* What get_access_token returns for the token pair read, or the error.
AccessTokenValue(pair) ==
    IF ~pair.ok THEN pair
    ELSE Ok(<<pair.value.token, pair.value.token_secret>>)

\* get_request_token and get_access_token after raw_request.
RequestTokenAfter(self, raw_request) ==
    [sent |-> raw_request.sent,
     value |-> RequestTokenValue(self, TokenPairOf(raw_request))]

AccessTokenAfter(raw_request) ==
    [sent |-> raw_request.sent, value |-> AccessTokenValue(TokenPairOf(raw_request))]

\* get_request_token: what was sent and what is returned.
GetRequestTokenCall(self, callback_url, env) ==
    RequestTokenAfter(self, RawRequest(self, RequestTokenRequest(callback_url), env))

\* get_access_token: what was sent and what is returned.
GetAccessTokenCall(self, verifier, env) ==
    AccessTokenAfter(RawRequest(self, AccessTokenRequest(verifier), env))

\* The number of AsyncClient values the program holds at once.
MaxClients == 3

\* The record of a call on a client.
FlowResult(fn, self, arg, env, call) ==
    [fn |-> fn, self |-> self, arg |-> arg, env |-> env, sent |-> call.sent,
     value |-> call.value, again |-> self \in spent]

\* The client the flow starts from, without a token, and the temporary
\* clients get_request_token can return for it.
AppClient == Client("OAuth10a", New(DocApiKey, DocApiKeySecret, <<>>, <<>>))

TemporaryClients(app) ==
    {Client("OAuth10aRequest", WithAccessToken(app.auth, pair[1], pair[2])) :
        pair \in BodyTokens}

\* The calls a client can sign.
CallsOf(client, urls, verifiers) ==
    IF client.type = "OAuth10a"
    THEN {<<client.auth, RequestTokenRequest(url)>> : url \in urls}
    ELSE {<<client.auth, AccessTokenRequest(v)>> : v \in verifiers}

\* In SpecFlow the program passes "oob" and "1234", and the request is not
\* executed, or the server answers 200 with body 1, 200 with body 3 or 401
\* with body 1.
FlowCallbackUrls == {<<111, 111, 98>>}

FlowVerifiers == {<<49, 50, 51, 52>>}

FlowTransports ==
    {[stage |-> "execute"]}
    \cup {[stage |-> "response", status |-> answer[1],
           headers |-> [limit |-> Some(<<49, 53>>), remaining |-> Some(<<48>>),
                        reset |-> Some(<<57, 48, 48>>)],
           read |-> TRUE, body |-> Bodies[answer[2]]] :
            answer \in {<<200, 1>>, <<200, 3>>, <<401, 1>>}}

\* let client = AsyncClient::new(OAuth10a::new(key, secret, "", ""), timeout)?
InitFlow ==
    /\ CredIdle
    /\ ParamIdle
    /\ ThreadIdle
    /\ auth = NoCred
    /\ clock = DocTimestamp
    /\ rng = 0
    /\ changed = FALSE
    /\ last = NoLast
    /\ clients = <<AppClient>>
    /\ sigs = FlowSigTable(UNION {CallsOf(c, FlowCallbackUrls, FlowVerifiers) :
                                    c \in {AppClient} \cup TemporaryClients(AppClient)})
    /\ spent = {}
    /\ result = NoResult

\* let copy = client.clone()
CloneClient(i) ==
    /\ Len(clients) < MaxClients
    /\ clients' = Append(clients, clients[i])
    /\ UNCHANGED <<credVars, paramVars, signVars, threadVars, spent, result>>

GetRequestToken_ClientOnEveryAnswer(i, callback_url, env) ==
    LET call == GetRequestTokenCall(clients[i], callback_url, env)
    IN  /\ clients[i].type = "OAuth10a"
        /\ result' = FlowResult("get_request_token", clients[i], callback_url, env, call)
        /\ spent' = spent \cup {clients[i]}
        /\ clients' = IF Len(clients) < MaxClients
                      THEN Append(clients,
                                  IF call.value.ok THEN call.value.value.client
                                  ELSE Client("OAuth10aRequest", clients[i].auth))
                      ELSE clients
        /\ UNCHANGED <<credVars, paramVars, signVars, threadVars>>

\* The program's step for a get_request_token that returned: the call is
\* recorded and a client returned is kept while there is room for it.
RequestTokenReturns(i, callback_url, env, call) ==
    /\ clients[i].type = "OAuth10a"
    /\ result' = FlowResult("get_request_token", clients[i], callback_url, env, call)
    /\ spent' = spent \cup {clients[i]}
    /\ clients' = IF call.value.ok /\ Len(clients) < MaxClients
                  THEN Append(clients, call.value.value.client)
                  ELSE clients
    /\ UNCHANGED <<credVars, paramVars, signVars, threadVars>>

\* let r = client.get_request_token(callback_url).await; a client returned
\* is kept while there is room for it.
GetRequestToken(i, callback_url, env) ==
    RequestTokenReturns(i, callback_url, env,
                        GetRequestTokenCall(clients[i], callback_url, env))

\* let r = client.get_access_token(verifier).await; the client is moved
\* into the call.
GetAccessToken(i, verifier, env) ==
    /\ clients[i].type = "OAuth10aRequest"
    /\ result' = FlowResult("get_access_token", clients[i], verifier, env,
                            GetAccessTokenCall(clients[i], verifier, env))
    /\ spent' = spent \cup {clients[i]}
    /\ clients' = [j \in 1..(Len(clients) - 1) |->
                    IF j < i THEN clients[j] ELSE clients[j + 1]]
    /\ UNCHANGED <<credVars, paramVars, signVars, threadVars>>

NextFlow ==
    \/ \E i \in DOMAIN clients : CloneClient(i)
    \/ \E i \in DOMAIN clients, callback_url \in FlowCallbackUrls, env \in FlowTransports :
        GetRequestToken(i, callback_url, env)
    \/ \E i \in DOMAIN clients, verifier \in FlowVerifiers, env \in FlowTransports :
        GetAccessToken(i, verifier, env)

SpecFlow == InitFlow /\ [][NextFlow]_vars

(***************************************************************************)
(* SpecExchange: one call of get_request_token or get_access_token, on     *)
(* any client the flow can hold, with every callback URL, verifier and     *)
(* answer of the transport.                                                *)
(***************************************************************************)

\* The clients a call is made on: one made from the documented credential,
\* one made without a token, and the temporary clients of both.
ExchangeClients ==
    LET apps == {Client("OAuth10a", SignCreds[i]) : i \in DOMAIN SignCreds}
    IN  apps \cup UNION {TemporaryClients(app) : app \in apps}

InitExchange ==
    /\ CredIdle
    /\ ParamIdle
    /\ ThreadIdle
    /\ auth = NoCred
    /\ clock = DocTimestamp
    /\ rng \in RngSeeds
    /\ changed = FALSE
    /\ last = NoLast
    /\ \E client \in ExchangeClients :
        /\ clients = <<client>>
        /\ sigs = FlowSigTable(CallsOf(client, CallbackUrls, Verifiers))
    /\ spent = {}
    /\ result = NoResult

\* The call is the only one of the run.
NextExchange ==
    \/ \E callback_url \in CallbackUrls, env \in Transports :
        result = NoResult /\ GetRequestToken(1, callback_url, env)
    \/ \E verifier \in Verifiers, env \in Transports :
        result = NoResult /\ GetAccessToken(1, verifier, env)

SpecExchange == InitExchange /\ [][NextExchange]_vars

\* C13: each transition of the flow consumes the credential it starts from:
\* no call of get_request_token or get_access_token is made on a client
\* value that one of the two was already called on.
C13_TransitionConsumesCredential ==
    result.fn \in {"get_request_token", "get_access_token"} => ~result.again


\* The pieces of a form body between its '&'s, as (key, value) pairs in the
\* order of the body: the key is what stands before the first '=', the value
\* what stands after it, both with '+' read as a space and "%XY" as a byte.
FormValue(text) == DecodeOnce([i \in 1..Len(text) |-> IF text[i] = 43 THEN 32 ELSE text[i]])

FormFields(body) ==
    IF body = <<>> THEN <<>>
    ELSE LET pieces == Split(body, 38)
         IN  [i \in 1..Len(pieces) |->
                IF Find(pieces[i], 61) = 0 THEN <<FormValue(pieces[i]), <<>>>>
                ELSE <<FormValue(SubSeq(pieces[i], 1, Find(pieces[i], 61) - 1)),
                       FormValue(SubSeq(pieces[i], Find(pieces[i], 61) + 1,
                                        Len(pieces[i])))>>]

HasField(body, key) == \E i \in DOMAIN FormFields(body) : FormFields(body)[i][1] = key

\* The value of the last field of the body with the key.
FieldOf(body, key) ==
    LET fields == FormFields(body)
    IN  fields[CHOOSE i \in DOMAIN fields :
                /\ fields[i][1] = key
                /\ \A j \in DOMAIN fields : fields[j][1] = key => j <= i][2]

\* The call of result received a response with a success status and a body
\* that was read and holds both oauth_token and oauth_token_secret.
GoodResponse ==
    /\ result.env.stage = "response"
    /\ result.env.status \in 200..299
    /\ result.env.read
    /\ HasField(result.env.body, OauthTokenKey)
    /\ HasField(result.env.body, OauthTokenSecretKey)

\* C14: get_request_token, on a success status and a body with oauth_token=T
\* and oauth_token_secret=S (the last of each, should a key come twice),
\* returns a temporary client whose credential has the caller's consumer key,
\* the caller's signing key up to its '&', the token percent_encode(T) and
\* the token-secret part percent_encode(S), and the redirect URL
\* https://api.twitter.com/oauth/authorize?oauth_token=<percent_encode(T)>;
\* the caller still holds its client with the credential it had.
C14_RequestTokenRotatesCredential ==
    (result.fn = "get_request_token" /\ GoodResponse) =>
        LET T == FieldOf(result.env.body, OauthTokenKey)
            S == FieldOf(result.env.body, OauthTokenSecretKey)
        IN  /\ result.value.ok
            /\ result.value.value.client.type = "OAuth10aRequest"
            /\ result.value.value.client.auth =
                    [api_key_encoded |-> result.self.auth.api_key_encoded,
                     access_token_encoded |-> PercentEncode(T),
                     signing_key |-> KeyPrefix(result.self.auth) \o PercentEncode(S)]
            /\ result.value.value.redirect_url = AuthorizeUrlPrefix \o PercentEncode(T)
            /\ clients[1] = result.self
            /\ clients[2] = result.value.value.client

\* A client that has a token of its own gets, from the body that carries
\* both keys twice, the temporary credential of the token "a/b c" and the
\* secret "k&=", and a URL that ends in a%2Fb%20c.
C14_Witness ==
    /\ result.fn = "get_request_token"
    /\ GoodResponse
    /\ result.env.body = Bodies[2]
    /\ result.self.auth.access_token_encoded # <<>>
    /\ result.value.ok
    /\ result.value.value.client.auth.access_token_encoded =
            <<97, 37, 50, 70, 98, 37, 50, 48, 99>>
    /\ result.value.value.client.auth.signing_key # result.self.auth.signing_key
    /\ SubSeq(result.value.value.redirect_url,
              Len(result.value.value.redirect_url) - 8,
              Len(result.value.value.redirect_url))
            = <<97, 37, 50, 70, 98, 37, 50, 48, 99>>


\* C15: get_access_token hands one POST for
\* https://api.twitter.com/oauth/access_token to the transport, with the form
\* body oauth_verifier=<percent_encode(verifier)> and an Authorization header
\* made with the temporary credential, whose signature is the one of the
\* request with the pair (oauth_verifier, verifier) among its signed
\* parameters; on a success status and a body with both fields it returns
\* the decoded (oauth_token, oauth_token_secret), the last of each.
C15_AccessTokenExchange ==
    result.fn = "get_access_token" =>
        LET signed == NewWithData("Post", AccessTokenEndpoint,
                                  FormData(<<<<OauthVerifierKey, result.arg>>>>))
            piece == OauthVerifierKey \o <<61>> \o PercentEncode(result.arg)
        IN  /\ result.env.stage # "build" =>
                /\ Len(result.sent) = 1
                /\ result.sent[1].method = <<80, 79, 83, 84>>
                /\ result.sent[1].url = AccessTokenEndpoint
                /\ result.sent[1].body = piece
                /\ result.sent[1].content_type = Some(FormContentType)
                /\ <<result.self.auth, signed>> \in DOMAIN sigs
                /\ IsSignatureText(sigs[<<result.self.auth, signed>>])
                /\ result.sent[1].authorization =
                        AuthHeaderText(result.self.auth, FlowNonce,
                                       sigs[<<result.self.auth, signed>>], clock)
                /\ Contains(<<38>> \o ParameterString(result.self.auth, signed,
                                                     FlowNonce, clock) \o <<38>>,
                            <<38>> \o piece \o <<38>>)
            /\ GoodResponse =>
                result.value = Ok(<<FieldOf(result.env.body, OauthTokenKey),
                                    FieldOf(result.env.body, OauthTokenSecretKey)>>)

\* A verifier that needs encoding, "a b&c=d+é", is exchanged for the pair
\* ("a/b c", "k&=") of the body that carries both keys twice.
C15_Witness ==
    /\ result.fn = "get_access_token"
    /\ GoodResponse
    /\ result.arg = <<97, 32, 98, 38, 99, 61, 100, 43, 195, 169>>
    /\ result.env.body = Bodies[2]
    /\ result.value = Ok(<<<<97, 47, 98, 32, 99>>, <<107, 38, 61>>>>)
    /\ Len(result.sent) = 1
    /\ result.self.auth.access_token_encoded # <<>>


\* The call of result is one of the two exchanges.
IsExchange == result.fn \in {"get_request_token", "get_access_token"}

\* The call of result received a response.
Responded == IsExchange /\ result.env.stage = "response"

\* C16: in both calls a response with a status outside 200..299, or with a
\* body that lacks oauth_token or oauth_token_secret, makes the call return an
\* error: no temporary client, URL or token pair is returned and the program
\* holds no new client.  The status is checked first: with a status outside
\* 200..299 the error is the one of the status, whatever the body holds and
\* whether or not it can be read.
C16_BadResponseIsAnError ==
    Responded =>
        /\ (\/ result.env.status \notin 200..299
            \/ ~HasField(result.env.body, OauthTokenKey)
            \/ ~HasField(result.env.body, OauthTokenSecretKey)) =>
                /\ ~result.value.ok
                /\ DOMAIN result.value = {"ok", "kind", "limit_info"}
                /\ clients = IF result.fn = "get_request_token" THEN <<result.self>>
                             ELSE <<>>
        /\ result.env.status \notin 200..299 =>
                /\ ~result.value.ok
                /\ result.value.kind.variant = "Custom"
                /\ result.value.kind.message \notin {NoTokenMessage, NoTokenSecretMessage}

\* get_access_token got 401 with a readable body that holds both fields.
C16_Witness ==
    /\ result.fn = "get_access_token"
    /\ Responded
    /\ result.env.status = 401
    /\ result.env.read
    /\ result.env.body = Bodies[1]
    /\ ~result.value.ok

\* C17: a response with a success status and a readable body that lacks
\* oauth_token is returned as the error Custom("no oauth_token in response"),
\* one that has oauth_token and lacks oauth_token_secret as
\* Custom("no oauth_token_secret in response"): never Transfer, and no other
\* condition is returned as either of the two.
C17_MissingFieldIsNamed ==
    IsExchange =>
        LET answered == Responded /\ result.env.status \in 200..299 /\ result.env.read
            no_token == answered /\ ~HasField(result.env.body, OauthTokenKey)
            no_secret == /\ answered
                         /\ HasField(result.env.body, OauthTokenKey)
                         /\ ~HasField(result.env.body, OauthTokenSecretKey)
            named(text) == ~result.value.ok /\ result.value.kind = Custom(text)
        IN  /\ (no_token \/ no_secret) =>
                ~result.value.ok /\ result.value.kind.variant # "Transfer"
            /\ no_token <=>
                named(<<110, 111, 32, 111, 97, 117, 116, 104, 95, 116, 111, 107, 101,
                        110, 32, 105, 110, 32, 114, 101, 115, 112, 111, 110, 115, 101>>)
            /\ no_secret <=>
                named(<<110, 111, 32, 111, 97, 117, 116, 104, 95, 116, 111, 107, 101,
                        110, 95, 115, 101, 99, 114, 101, 116, 32, 105, 110, 32, 114,
                        101, 115, 112, 111, 110, 115, 101>>)

\* get_request_token got 200 with the body oauth_token=Z7&oauth_tokensecret=x.
C17_Witness ==
    /\ result.fn = "get_request_token"
    /\ Responded
    /\ result.env.status = 200
    /\ result.env.read
    /\ result.env.body = Bodies[4]
    /\ ~result.value.ok
    /\ result.value.kind = Custom(NoTokenSecretMessage)

\* The number a text of decimal digits stands for.
RECURSIVE DecimalValue(_)
DecimalValue(text) ==
    IF text = <<>> THEN 0
    ELSE 10 * DecimalValue(SubSeq(text, 1, Len(text) - 1)) + (text[Len(text)] - 48)

\* C18: with a status outside 200..299 the error returned carries the status:
\* its kind is Custom with a text that starts with the three digits of the
\* status code and a space, so the code can be read back from the error.
C18_StatusAttached ==
    (Responded /\ result.env.status \notin 200..299) =>
        /\ ~result.value.ok
        /\ result.value.kind.variant = "Custom"
        /\ Len(result.value.kind.message) >= 4
        /\ \A i \in 1..3 : result.value.kind.message[i] \in 48..57
        /\ result.value.kind.message[4] = 32
        /\ DecimalValue(SubSeq(result.value.kind.message, 1, 3)) = result.env.status

\* get_request_token got 503: the error reads "503 Service Unavailable".
C18_Witness ==
    /\ result.fn = "get_request_token"
    /\ Responded
    /\ result.env.status = 503
    /\ ~result.value.ok
    /\ result.value.kind.message =
            <<53, 48, 51, 32, 83, 101, 114, 118, 105, 99, 101, 32, 85, 110, 97, 118,
              97, 105, 108, 97, 98, 108, 101>>

\* What LimitInfo::limit, remaining and reset_seconds give back for a field
\* that holds a number below 2^31.
Decoded(field) ==
    IF field.some THEN Some(field.value[3] * LimbBase + field.value[4] - 1) ELSE None

\* The number a header value spells.
Spelled(header) == IF header.some THEN Some(DecimalValue(header.value)) ELSE None

\* C19: an error returned after a response was received (status outside
\* 200..299, body not read, oauth_token or oauth_token_secret missing) has a
\* limit_info, and it is the one of the response's rate-limit headers; an error
\* returned before there is a response (the header is not valid, the request
\* cannot be built, it cannot be executed) has none.
C19_LimitInfoAfterResponse ==
    (IsExchange /\ ~result.value.ok) =>
        /\ result.value.kind.variant \in {"BadAuthHeader", "Transfer", "Custom"}
        /\ result.env.stage = "response" =>
            /\ result.value.limit_info.some
            /\ Decoded(result.value.limit_info.value.limit) = Spelled(result.env.headers.limit)
            /\ Decoded(result.value.limit_info.value.remaining)
                    = Spelled(result.env.headers.remaining)
            /\ Decoded(result.value.limit_info.value.reset_secs)
                    = Spelled(result.env.headers.reset)
        /\ result.env.stage # "response" => result.value.limit_info = None
        /\ result.value.limit_info = None =>
            /\ result.env.stage # "response"
            /\ result.value.kind.variant \in {"BadAuthHeader", "Transfer"}

\* The body of a 200 response with rate-limit headers could not be read: the
\* Transfer error of get_access_token carries the limits 15, 0 and 900.
C19_Witness ==
    /\ result.fn = "get_access_token"
    /\ Responded
    /\ result.env.status = 200
    /\ ~result.env.read
    /\ ~result.value.ok
    /\ result.value.kind.variant = "Transfer"
    /\ result.value.limit_info.some
    /\ Decoded(result.value.limit_info.value.limit) = Some(15)
    /\ Decoded(result.value.limit_info.value.remaining) = Some(0)

\* C20: a call hands at most one HTTP request to the transport: none when
\* the call fails before there is a request, one in every other case, be the
\* outcome a value, a transport error, a status outside 200..299 or a
\* missing field.
C20_AtMostOneRequest ==
    IsExchange =>
        /\ Len(result.sent) <= 1
        /\ Len(result.sent) = 0 <=>
                /\ ~result.value.ok
                /\ result.value.limit_info = None
                /\ result.env.stage # "execute"
        /\ result.env.stage \in {"execute", "response"} => Len(result.sent) = 1

\* get_request_token's request could not be executed: one request was handed
\* over and the error returned.
C20_Witness ==
    /\ result.fn = "get_request_token"
    /\ result.env.stage = "execute"
    /\ Len(result.sent) = 1
    /\ ~result.value.ok
    /\ result.value.kind.variant = "Transfer"


\* The answer is a response with a success status and a readable body that
\* holds both oauth_token and oauth_token_secret.
CarriesTokenPair(env) ==
    /\ env.stage = "response"
    /\ env.status \in 200..299
    /\ env.read
    /\ HasField(env.body, OauthTokenKey)
    /\ HasField(env.body, OauthTokenSecretKey)

\* The temporary credential made of the consumer key and the consumer-secret
\* prefix of app and of the token pair the answer carries.
TemporaryOf(app, env) ==
    [api_key_encoded |-> app.api_key_encoded,
     access_token_encoded |-> PercentEncode(FieldOf(env.body, OauthTokenKey)),
     signing_key |-> KeyPrefix(app)
                        \o PercentEncode(FieldOf(env.body, OauthTokenSecretKey))]

\* C21: every temporary client the program holds has the credential of a
\* client get_request_token was called on, rotated to the token pair of a
\* request-token response; and a step adds a temporary client to those held
\* only as the returned client of a get_request_token call that succeeded,
\* made of the caller's credential and the pair of that call's response, or
\* as the copy of a temporary client already held.
C21_TemporaryOnlyFromRequestToken ==
    /\ [](\A j \in DOMAIN clients :
            clients[j].type = "OAuth10aRequest" =>
                \E app \in spent, env \in FlowTransports :
                    /\ app.type = "OAuth10a"
                    /\ CarriesTokenPair(env)
                    /\ clients[j].auth = TemporaryOf(app.auth, env))
    /\ [][Len(clients') > Len(clients) =>
            /\ Len(clients') = Len(clients) + 1
            /\ SubSeq(clients', 1, Len(clients)) = clients
            /\ clients'[Len(clients')].type = "OAuth10aRequest" =>
                \/ \E j \in DOMAIN clients : clients[j] = clients'[Len(clients')]
                \/ /\ result'.fn = "get_request_token"
                   /\ result'.value.ok
                   /\ result'.self.type = "OAuth10a"
                   /\ \E j \in DOMAIN clients : clients[j] = result'.self
                   /\ CarriesTokenPair(result'.env)
                   /\ clients'[Len(clients')] = result'.value.value.client
                   /\ clients'[Len(clients')].auth
                            = TemporaryOf(result'.self.auth, result'.env)]_vars

\* The program holds the first client and two temporary clients with
\* different tokens, after a call of get_request_token that failed.
C21_Witness ==
    /\ Len(clients) = 3
    /\ clients[1].type = "OAuth10a"
    /\ clients[2].type = "OAuth10aRequest"
    /\ clients[3].type = "OAuth10aRequest"
    /\ clients[2].auth.access_token_encoded # clients[3].auth.access_token_encoded
    /\ result.fn = "get_request_token"
    /\ ~result.value.ok


\* The values of the seven fields of a header, in the order of the header.
ValuesOf(header) ==
    LET cut == Split(SubSeq(header, 7, Len(header)), 44)
    IN  [i \in 1..Len(cut) |-> FieldValue(IF i = 1 THEN cut[i] ELSE Tail(cut[i]))]

\* C27: in every header auth_header returns, the signature written is the
\* signature of the call's request computed over the nonce and the timestamp
\* written in the same header, also when the clock moves or another thread
\* signs while the call runs; and the consumer key and token written are the
\* values of oauth_consumer_key and oauth_token in the parameter string that
\* was signed.
C27_HeaderCarriesWhatWasSigned ==
    threads # <<>> =>
        \A t \in Threads :
            threads[t].kind = "auth_header" =>
                LET values == ValuesOf(threads[t].value)
                    nonce == values[2]
                    timestamp == DecimalValue(values[5])
                    pieces == Split(ParameterString(auth, threads[t].request, nonce,
                                                    timestamp), 38)
                IN  /\ Len(values) = 7
                    /\ IsSignatureText(DecodeOnce(values[3]))
                    /\ DecodeOnce(values[3])
                            = Signed(auth, threads[t].request, nonce, timestamp)
                    /\ \E i \in DOMAIN pieces :
                            pieces[i] = HeaderKeys[1] \o <<61>> \o values[1]
                    /\ \E i \in DOMAIN pieces :
                            pieces[i] = HeaderKeys[6] \o <<61>> \o values[6]
                    /\ \E i \in DOMAIN pieces :
                            pieces[i] = HeaderKeys[2] \o <<61>> \o nonce
                    /\ \E i \in DOMAIN pieces :
                            pieces[i] = HeaderKeys[5] \o <<61>> \o values[5]

\* A header returned after the clock moved between the reading of the
\* timestamp and the formatting: it carries the earlier time.
C27_Witness ==
    /\ threads # <<>>
    /\ \E t \in Threads :
        /\ threads[t].kind = "auth_header"
        /\ threads[t].timestamp < clock
        /\ DecimalValue(ValuesOf(threads[t].value)[5]) = DocTimestamp
        /\ threads[t].request = DocRequest


\* C23: for a request whose data is JsonData or (), what is signed holds the
\* six protocol pairs and nothing of the data: parameter string, signature
\* base and signature are those of the request with the same method and base
\* URL and no data at all, so two JSON bodies are signed alike.
C23_JsonBodyNotSigned ==
    (pout.fn # "none" /\ pcall.request.data.kind \in {"Json", "Unit"}) =>
        LET bare == NewWithData(pcall.request.method, pcall.request.base_url, UnitData)
        IN  /\ SignedParams(pcall.self, pcall.request, pcall.nonce, pcall.timestamp)
                    = ProtocolParams(pcall.self, pcall.nonce, pcall.timestamp)
            /\ pout.fn = "parameter_string" =>
                /\ pout.value = ParameterString(pcall.self, bare, pcall.nonce,
                                                pcall.timestamp)
                /\ Count(pout.value, 38) = 5
            /\ pout.fn = "signature_base" =>
                pout.value = SignatureBase(pcall.self, bare, pcall.nonce, pcall.timestamp)
            /\ pout.fn = "signature" =>
                /\ IsSignatureText(pout.value)
                /\ pout.value = Signature(pcall.self, bare, pcall.nonce, pcall.timestamp)

\* The signature of a POST whose JSON body reads a=1&oauth_token=x.
C23_Witness ==
    /\ pout.fn = "signature"
    /\ pcall.request.data.kind = "Json"
    /\ pcall.request.data.body
            = <<97, 61, 49, 38, 111, 97, 117, 116, 104, 95, 116, 111, 107, 101, 110, 61, 120>>
    /\ pcall.request.method = "Post"


\* How many elements of list equal piece.
Times(list, piece) == Cardinality({i \in DOMAIN list : list[i] = piece})

\* The key=value entries of the body a FormData request transmits.
SentEntries(request) ==
    IF request.data.params = <<>> THEN <<>>
    ELSE Split(BuildHttpRequest(request, <<>>).body, 38)

\* C24: the signature of a FormData request covers the pairs as transmitted:
\* the signed parameter string holds, next to the protocol entries, one entry
\* for every pair of the body sent, a pair supplied twice counted twice, with
\* the same encoded key and value, and no other entry.
C24_SignedEntriesAreSentEntries ==
    (pout.fn = "parameter_string" /\ pcall.request.data.kind = "Form") =>
        LET sent == SentEntries(pcall.request)
            signed == Split(pout.value, 38)
            protocol == Split(ParameterString(pcall.self,
                                NewWithData(pcall.request.method,
                                            pcall.request.base_url, UnitData),
                                pcall.nonce, pcall.timestamp), 38)
        IN  \A i \in DOMAIN signed \cup DOMAIN sent :
                LET piece == IF i \in DOMAIN signed THEN signed[i] ELSE sent[i]
                IN  Times(signed, piece) = Times(sent, piece) + Times(protocol, piece)


(***************************************************************************)
(* SpecDecode: a FormDecoder made over a body and asked for its next item  *)
(* until, and after, it answers None.                                      *)
(***************************************************************************)

\* The longest body, counted in pieces of BodyPieces.
MaxBody == 5

\* "a", "b", "&", "=", "+", "%26"
BodyPieces == {<<97>>, <<98>>, <<38>>, <<61>>, <<43>>, <<37, 50, 54>>}

\* Every body made of at most MaxBody pieces.
DecoderBodies == {Concat(pieces) : pieces \in SeqsUpTo(BodyPieces, MaxBody)}

FormDecoderNext_SplitsAtLastEquals(bytes) ==
    IF bytes = <<>> THEN [item |-> None, bytes |-> bytes]
    ELSE LET split == SplitOnByte(bytes, 38)
             at == {k \in 1..Len(split[1]) : split[1][k] = 61}
             last_at == IF at = {} THEN Len(split[1]) + 1
                        ELSE CHOOSE k \in at : \A other \in at : other <= k
         IN  [item |-> Some(<<PercentDecodeForm(SubSeq(split[1], 1, last_at - 1)),
                              PercentDecodeForm(SubSeq(split[1], last_at + 1,
                                                       Len(split[1])))>>),
              bytes |-> split[2]]

\* <FormDecoder as Iterator>::next on a decoder whose field is bytes: the
\* item returned and the field afterwards.
FormDecoderNext(bytes) ==
    IF bytes = <<>> THEN [item |-> None, bytes |-> bytes]
    ELSE LET split == SplitOnByte(bytes, 38)
             pair == SplitOnByte(split[1], 61)
         IN  [item |-> Some(<<PercentDecodeForm(pair[1]), PercentDecodeForm(pair[2])>>),
              bytes |-> split[2]]

\* let mut decoder = FormDecoder::new(&body);
\* pcall is the decoder with the body it was made over, pout the last answer
\* of next() and the items answered so far.
InitDecode ==
    /\ CredIdle
    /\ SignIdle
    /\ ThreadIdle
    /\ FlowIdle
    /\ \E body \in DecoderBodies : pcall = [input |-> body, bytes |-> body]
    /\ pout = [fn |-> "new", value |-> None, yielded |-> <<>>]

\* decoder.next()
DecoderNext ==
    LET step == FormDecoderNext(pcall.bytes)
    IN  /\ pcall' = [pcall EXCEPT !.bytes = step.bytes]
        /\ pout' = [fn |-> "next", value |-> step.item,
                    yielded |-> IF step.item.some
                                THEN Append(pout.yielded, step.item.value)
                                ELSE pout.yielded]
        /\ UNCHANGED <<credVars, signVars, threadVars, flowVars>>

NextDecode == DecoderNext

SpecDecode == InitDecode /\ [][NextDecode]_vars

\* The text of a form-encoded piece: '+' read as a space, then the escapes.
FormText(piece) ==
    DecodeOnce([k \in 1..Len(piece) |-> IF piece[k] = 43 THEN 32 ELSE piece[k]])

\* The pair a segment stands for: cut at its first '=', or all key.
SegmentPair(segment) ==
    IF Find(segment, 61) = 0 THEN <<FormText(segment), <<>>>>
    ELSE <<FormText(PairOf(segment)[1]), FormText(PairOf(segment)[2])>>

\* The pairs of the '&'-delimited segments of body, all of them or all but
\* an empty last one.
SegmentPairs(body, all) ==
    LET segments == Split(body, 38)
        n == IF ~all /\ segments[Len(segments)] = <<>> THEN Len(segments) - 1
             ELSE Len(segments)
    IN  [k \in 1..n |-> SegmentPair(segments[k])]

\* What the items answered so far and the decoder's field must be when the
\* pairs the body stands for are expected.
DecodesTo(expected) ==
    /\ Len(pout.yielded) <= Len(expected)
    /\ pout.yielded = SubSeq(expected, 1, Len(pout.yielded))
    /\ (pout.fn = "next" /\ pout.value.some) =>
            pout.value.value = expected[Len(pout.yielded)]
    /\ (pout.fn = "next" /\ ~pout.value.some) =>
            /\ pout.yielded = expected
            /\ pcall.bytes = <<>>

\* Every answer of next() that is an item leaves the decoder a strictly
\* shorter input, and None is answered on an empty input, which it leaves.
StepShortens ==
    pout' # pout =>
        IF pout'.value.some
        THEN Len(pcall'.bytes) < Len(pcall.bytes)
        ELSE pcall.bytes = <<>> /\ pcall'.bytes = <<>>

\* The claim as worded, a pair for every '&'-delimited segment, the empty
\* last one included.
C26_OnePairPerSegment ==
    /\ [](DecodesTo(SegmentPairs(pcall.input, TRUE)))
    /\ [][StepShortens]_vars

\* C26: FormDecoder yields, in input order, one (key, value) pair per
\* '&'-delimited segment of the body except an empty last segment (so none
\* for an empty body), each cut at its first '=', or all key and an empty
\* value, key and value percent-decoded with '+' read as a space; then it
\* answers None; and every item answered strictly shortens what remains.
C26_FormDecoderPairs ==
    /\ [](DecodesTo(SegmentPairs(pcall.input, FALSE)))
    /\ [][StepShortens]_vars

\* "+=%26=&" decoded to (" ", "&="), then None.
C26_Witness ==
    /\ pout.fn = "next"
    /\ ~pout.value.some
    /\ pcall.input = <<43, 61, 37, 50, 54, 61, 38>>
    /\ pout.yielded = <<<<<<32>>, <<38, 61>>>>>>


(***************************************************************************)
(* SpecLimit: a LimitInfo made by LimitInfo::new or by from_headers, and   *)
(* read through limit, remaining and reset_seconds.                        *)
(***************************************************************************)

\* 0, 1, 15, 2^16 - 1, 2^16, 2^32 - 1, 2^32, 2^63, 2^64 - 2 and u64::MAX
NumberSamples ==
    {U64Zero, <<0, 0, 0, 1>>, <<0, 0, 0, 15>>, <<0, 0, 0, LimbBase - 1>>, <<0, 0, 1, 0>>,
     <<0, 0, LimbBase - 1, LimbBase - 1>>, <<0, 1, 0, 0>>, <<32768, 0, 0, 0>>,
     <<LimbBase - 1, LimbBase - 1, LimbBase - 1, LimbBase - 2>>, U64Max}

\* The header values sampled: "", "0", "00", "+7", "+", "-1", "-", "15", "
\* 15", "15 ", "1.5", "abc", "65535", "65536", "4294967296",
\* "18446744073709551614", "18446744073709551615", "18446744073709551616",
\* "99999999999999999999", "018446744073709551614", "184467440737095516150",
\* "+18446744073709551614", "the byte 255", "é", "٣".
HeaderSamples ==
    {<<>>,
     <<48>>,
     <<48, 48>>,
     <<43, 55>>,
     <<43>>,
     <<45, 49>>,
     <<45>>,
     <<49, 53>>,
     <<32, 49, 53>>,
     <<49, 53, 32>>,
     <<49, 46, 53>>,
     <<97, 98, 99>>,
     <<54, 53, 53, 51, 53>>,
     <<54, 53, 53, 51, 54>>,
     <<52, 50, 57, 52, 57, 54, 55, 50, 57, 54>>,
     <<49, 56, 52, 52, 54, 55, 52, 52, 48, 55, 51, 55, 48, 57, 53, 53, 49, 54, 49, 52>>,
     <<49, 56, 52, 52, 54, 55, 52, 52, 48, 55, 51, 55, 48, 57, 53, 53, 49, 54, 49, 53>>,
     <<49, 56, 52, 52, 54, 55, 52, 52, 48, 55, 51, 55, 48, 57, 53, 53, 49, 54, 49, 54>>,
     <<57, 57, 57, 57, 57, 57, 57, 57, 57, 57, 57, 57, 57, 57, 57, 57, 57, 57, 57, 57>>,
     <<48, 49, 56, 52, 52, 54, 55, 52, 52, 48, 55, 51, 55, 48, 57, 53, 53, 49, 54, 49, 52>>,
     <<49, 56, 52, 52, 54, 55, 52, 52, 48, 55, 51, 55, 48, 57, 53, 53, 49, 54, 49, 53, 48>>,
     <<43, 49, 56, 52, 52, 54, 55, 52, 52, 48, 55, 51, 55, 48, 57, 53, 53, 49, 54, 49, 52>>,
     <<255>>,
     <<195, 169>>,
     <<217, 163>>}

\* The arguments of the two constructors: one field takes any sample, the
\* two others are absent or hold 15 and 0.
LimitArgs(samples, fifteen, zero) ==
    {[k \in 1..3 |-> IF k = at THEN Some(x) ELSE IF k = (at % 3) + 1 THEN snd ELSE fst] :
        at \in 1..3, x \in samples, fst \in {None, Some(fifteen)}, snd \in {None, Some(zero)}}
    \cup {<<None, None, None>>}

\* let info = LimitInfo::new(..) or LimitInfo::from_headers(..);
\* pcall is the constructor call with the LimitInfo it made.
InitLimit ==
    /\ CredIdle
    /\ SignIdle
    /\ ThreadIdle
    /\ FlowIdle
    /\ \/ \E args \in LimitArgs(NumberSamples, <<0, 0, 0, 15>>, U64Zero) :
            pcall = [fn |-> "new", args |-> args,
                     self |-> LimitInfoNew(args[1], args[2], args[3])]
       \/ \E args \in LimitArgs(HeaderSamples, <<49, 53>>, <<48>>) :
            pcall = [fn |-> "from_headers", args |-> args,
                     self |-> FromHeaders([limit |-> args[1], remaining |-> args[2],
                                           reset |-> args[3]])]
    /\ pout = NoOut

\* info.limit()
Limit ==
    /\ \E value \in OptU64Decode(pcall.self.limit) :
            pout' = [fn |-> "limit", value |-> value]
    /\ UNCHANGED <<pcall, credVars, signVars, threadVars, flowVars>>

\* info.remaining()
Remaining ==
    /\ \E value \in OptU64Decode(pcall.self.remaining) :
            pout' = [fn |-> "remaining", value |-> value]
    /\ UNCHANGED <<pcall, credVars, signVars, threadVars, flowVars>>

\* info.reset_seconds()
ResetSeconds ==
    /\ \E value \in OptU64Decode(pcall.self.reset_secs) :
            pout' = [fn |-> "reset_seconds", value |-> value]
    /\ UNCHANGED <<pcall, credVars, signVars, threadVars, flowVars>>

NextLimit ==
    \/ Limit
    \/ Remaining
    \/ ResetSeconds

SpecLimit == InitLimit /\ [][NextLimit]_vars

\* x divided by ten: the quotient and the remainder.
DivTen(x) ==
    LET t1 == x[1]
        t2 == (t1 % 10) * LimbBase + x[2]
        t3 == (t2 % 10) * LimbBase + x[3]
        t4 == (t3 % 10) * LimbBase + x[4]
    IN  [quotient |-> <<t1 \div 10, t2 \div 10, t3 \div 10, t4 \div 10>>,
         remainder |-> t4 % 10]

\* The decimal digits of x, without leading zeros.
RECURSIVE Decimal(_)
Decimal(x) ==
    IF DivTen(x).quotient = U64Zero THEN <<48 + DivTen(x).remainder>>
    ELSE Decimal(DivTen(x).quotient) \o <<48 + DivTen(x).remainder>>

\* Whether text is a decimal numeral: digits, after at most one '+'.
IsNumeral(text) ==
    LET digits == IF text # <<>> /\ text[1] = 43 THEN Tail(text) ELSE text
    IN  /\ digits # <<>>
        /\ \A k \in 1..Len(digits) : 48 <= digits[k] /\ digits[k] <= 57

\* The digits of a numeral without its '+' and its leading zeros.
RECURSIVE Canonical(_)
Canonical(text) ==
    IF Len(text) > 1 /\ text[1] \in {43, 48} THEN Canonical(Tail(text))
    ELSE IF text = <<43>> THEN <<48>>
    ELSE text

\* Whether the numeral a (canonical) is a number below the numeral b.
NumeralBelow(a, b) ==
    \/ Len(a) < Len(b)
    \/ /\ Len(a) = Len(b)
       /\ \E k \in 1..Len(a) :
            /\ a[k] < b[k]
            /\ \A j \in 1..(k - 1) : a[j] = b[j]

\* The argument the field read by the last getter was made from.
ArgRead ==
    pcall.args[CASE pout.fn = "limit" -> 1
                 [] pout.fn = "remaining" -> 2
                 [] pout.fn = "reset_seconds" -> 3]

\* C30: a getter of LimitInfo gives back the number its field was made from:
\* Some(x) for every x up to 2^64 - 2 handed to LimitInfo::new or spelled by
\* the header, Some(0) for 0; None for no number, for a header that is absent
\* or spells no u64, and for 2^64 - 1; and no subtraction overflows.
C30_LimitInfoPreservesNumbers ==
    pout.fn \in {"limit", "remaining", "reset_seconds"} =>
        /\ pcall.fn = "new" =>
            pout.value = IF ArgRead.some /\ ArgRead.value # U64Max
                         THEN Some(ArgRead.value) ELSE None
        /\ pcall.fn = "from_headers" =>
            IF /\ ArgRead.some
               /\ IsNumeral(ArgRead.value)
               /\ NumeralBelow(Canonical(ArgRead.value), Decimal(U64Max))
            THEN /\ DOMAIN pout.value = {"some", "value"}
                 /\ pout.value.some
                 /\ Decimal(pout.value.value) = Canonical(ArgRead.value)
            ELSE pout.value = None
        /\ \A info \in {pcall.self.limit, pcall.self.remaining, pcall.self.reset_secs} :
                Cardinality(OptU64Decode(info)) = 1

\* remaining() of a LimitInfo made from the headers "18446744073709551614",
\* "0" and none: Some(0), next to a limit of 2^64 - 2.
C30_Witness ==
    /\ pcall.fn = "from_headers"
    /\ pout.fn = "remaining"
    /\ pout.value = Some(U64Zero)
    /\ pcall.args[1] = Some(Decimal(<<LimbBase - 1, LimbBase - 1, LimbBase - 1, LimbBase - 2>>))
    /\ pcall.self.limit = Some(U64Max)
    /\ pcall.self.reset_secs = None


(***************************************************************************)
(* The API v2 layer: the credential types and the traits they implement,   *)
(* apiv2_request, and the endpoints built on it.                           *)
(***************************************************************************)

Implements_TemporaryIsAppAuth(type, trait) ==
    CASE trait = "Auth" -> type \in {"BearerToken", "OAuth10a", "OAuth10aRequest"}
      [] trait = "AppAuth" -> type \in {"BearerToken", "OAuth10a", "OAuth10aRequest"}
      [] trait = "UserAuth" -> type \in {"OAuth10a"}

\* impl Auth for .., impl AppAuth for .., impl UserAuth for ..: whether the
\* credential type implements the trait.
Implements(type, trait) ==
    CASE trait = "Auth" -> type \in {"BearerToken", "OAuth10a", "OAuth10aRequest"}
      [] trait = "AppAuth" -> type \in {"BearerToken", "OAuth10a"}
      [] trait = "UserAuth" -> type \in {"OAuth10a"}

\* ErrorKind
InvalidResponse == [variant |-> "InvalidResponse"]
ErrorResponse(status, errors) ==
    [variant |-> "ErrorResponse", status |-> status, errors |-> errors]
NoData == [variant |-> "NoData"]
DeserializeModel == [variant |-> "DeserializeModel"]

\* The bodies the API answers with.
\* 1: {"data":[]}
\* 2: {"data":[{"id":"1","name":"n","username":"u"}]}
\* 3: {"data":{"id":"1","text":"hi"}}
\* 4: {"data":[],"errors":[{"message":"x"}]}
\* 5: {"errors":[{"message":"x"}]}
\* 6: {}
\* 7: oops
ApiBodies ==
    <<<<123, 34, 100, 97, 116, 97, 34, 58, 91, 93, 125>>,
      <<123, 34, 100, 97, 116, 97, 34, 58, 91, 123, 34, 105, 100, 34, 58, 34,
        49, 34, 44, 34, 110, 97, 109, 101, 34, 58, 34, 110, 34, 44, 34, 117,
        115, 101, 114, 110, 97, 109, 101, 34, 58, 34, 117, 34, 125, 93, 125>>,
      <<123, 34, 100, 97, 116, 97, 34, 58, 123, 34, 105, 100, 34, 58, 34, 49,
        34, 44, 34, 116, 101, 120, 116, 34, 58, 34, 104, 105, 34, 125, 125>>,
      <<123, 34, 100, 97, 116, 97, 34, 58, 91, 93, 44, 34, 101, 114, 114, 111,
        114, 115, 34, 58, 91, 123, 34, 109, 101, 115, 115, 97, 103, 101, 34,
        58, 34, 120, 34, 125, 93, 125>>,
      <<123, 34, 101, 114, 114, 111, 114, 115, 34, 58, 91, 123, 34, 109, 101,
        115, 115, 97, 103, 101, 34, 58, 34, 120, 34, 125, 93, 125>>,
      <<123, 125>>,
      <<111, 111, 112, 115>>>>

\* ApiV2Response { data, includes, errors, .. }
ApiV2Response(data, errors) == [data |-> data, errors |-> errors]

\* serde_json::from_slice::<ApiV2Response<RespData>>(&body).ok() for the
\* bodies of ApiBodies; resp_data is "users" for Vec<UserResponse>, "tweets"
\* for Box<[Tweet]> and "tweet" for the Response of PostTweet::execute. A
\* body whose data is not of the type asked for is not deserialized.
FromSlice(body, resp_data) ==
    IF body = ApiBodies[1] /\ resp_data \in {"users", "tweets"}
    THEN Some(ApiV2Response(Some(<<>>), <<>>))
    ELSE IF body = ApiBodies[2] /\ resp_data = "users"
    THEN Some(ApiV2Response(Some(<<"user">>), <<>>))
    ELSE IF body = ApiBodies[3] /\ resp_data = "tweet"
    THEN Some(ApiV2Response(Some("tweet"), <<>>))
    ELSE IF body = ApiBodies[4] /\ resp_data \in {"users", "tweets"}
    THEN Some(ApiV2Response(Some(<<>>), <<"x">>))
    ELSE IF body = ApiBodies[5]
    THEN Some(ApiV2Response(None, <<"x">>))
    ELSE IF body = ApiBodies[6]
    THEN Some(ApiV2Response(None, <<>>))
    ELSE None

ApiV2Request_StatusFirst(self, request, resp_data, env) ==
    LET raw_request == RawRequest(self, request, env)
        resp == raw_request.value.value.response
        limit_info == raw_request.value.value.limit_info
        apiv2_response == FromSlice(resp.body, resp_data)
    IN  [sent |-> raw_request.sent,
         value |->
            IF ~raw_request.value.ok THEN raw_request.value
            ELSE IF ~IsSuccess(resp.status)
            THEN Err(ErrorResponse(resp.status,
                                   IF resp.read /\ apiv2_response.some
                                   THEN apiv2_response.value.errors ELSE <<>>),
                     Some(limit_info))
            ELSE IF ~resp.read THEN Err(Transfer("bytes"), Some(limit_info))
            ELSE IF ~apiv2_response.some THEN Err(InvalidResponse, Some(limit_info))
            ELSE IF apiv2_response.value.errors # <<>>
            THEN Err(ErrorResponse(resp.status, apiv2_response.value.errors),
                     Some(limit_info))
            ELSE IF ~apiv2_response.value.data.some THEN Err(NoData, Some(limit_info))
            ELSE Ok([data |-> apiv2_response.value.data.value,
                     limit_info |-> limit_info])]

\* apiv2_request after raw_request, for what serde_json made of the body.
ApiV2Value(raw_request, apiv2_response) ==
    IF ~raw_request.value.ok THEN raw_request.value
    ELSE IF ~raw_request.value.value.response.read
    THEN Err(Transfer("bytes"), Some(raw_request.value.value.limit_info))
    ELSE IF ~apiv2_response.some
    THEN Err(InvalidResponse, Some(raw_request.value.value.limit_info))
    ELSE IF \/ ~IsSuccess(raw_request.value.value.response.status)
            \/ apiv2_response.value.errors # <<>>
    THEN Err(ErrorResponse(raw_request.value.value.response.status,
                           apiv2_response.value.errors),
             Some(raw_request.value.value.limit_info))
    ELSE IF ~apiv2_response.value.data.some
    THEN Err(NoData, Some(raw_request.value.value.limit_info))
    ELSE Ok([data |-> apiv2_response.value.data.value,
             limit_info |-> raw_request.value.value.limit_info])

ApiV2After(raw_request, resp_data) ==
    [sent |-> raw_request.sent,
     value |-> ApiV2Value(raw_request,
                          IF raw_request.value.ok
                          THEN FromSlice(raw_request.value.value.response.body, resp_data)
                          ELSE None)]

\* apiv2_request: what was sent and what is returned.
ApiV2Request(self, request, resp_data, env) ==
    ApiV2After(RawRequest(self, request, env), resp_data)

\* sink_comma_separated / sink_fmt_comma_separated: the items with a ','
\* between them.
RECURSIVE CommaSeparated(_)
CommaSeparated(items) ==
    IF items = <<>> THEN <<>>
    ELSE IF Len(items) = 1 THEN items[1]
    ELSE items[1] \o <<44>> \o CommaSeparated(Tail(items))

\* "https://api.twitter.com/2/users"
UsersEndpoint ==
    <<104, 116, 116, 112, 115, 58, 47, 47, 97, 112, 105, 46, 116, 119, 105,
      116, 116, 101, 114, 46, 99, 111, 109, 47, 50, 47, 117, 115, 101, 114,
      115>>

\* "https://api.twitter.com/2/tweets"
TweetsEndpoint ==
    <<104, 116, 116, 112, 115, 58, 47, 47, 97, 112, 105, 46, 116, 119, 105,
      116, 116, 101, 114, 46, 99, 111, 109, 47, 50, 47, 116, 119, 101, 101,
      116, 115>>

\* "ids"
IdsKey ==
    <<105, 100, 115>>

\* "expansions"
ExpansionsKey ==
    <<101, 120, 112, 97, 110, 115, 105, 111, 110, 115>>

\* "tweet.fields"
TweetFieldsKey ==
    <<116, 119, 101, 101, 116, 46, 102, 105, 101, 108, 100, 115>>

\* "user.fields"
UserFieldsKey ==
    <<117, 115, 101, 114, 46, 102, 105, 101, 108, 100, 115>>

\* "media.fields"
MediaFieldsKey ==
    <<109, 101, 100, 105, 97, 46, 102, 105, 101, 108, 100, 115>>

\* "start_time"
StartTimeKey ==
    <<115, 116, 97, 114, 116, 95, 116, 105, 109, 101>>

\* "exclude"
ExcludeKey ==
    <<101, 120, 99, 108, 117, 100, 101>>

\* "max_results"
MaxResultsKey ==
    <<109, 97, 120, 95, 114, 101, 115, 117, 108, 116, 115>>

\* "pagination_token"
PaginationTokenKey ==
    <<112, 97, 103, 105, 110, 97, 116, 105, 111, 110, 95, 116, 111, 107, 101,
      110>>

\* "since_id"
SinceIdKey ==
    <<115, 105, 110, 99, 101, 95, 105, 100>>

\* "until_id"
UntilIdKey ==
    <<117, 110, 116, 105, 108, 95, 105, 100>>

\* "retweets"
Retweets ==
    <<114, 101, 116, 119, 101, 101, 116, 115>>

\* "replies"
Replies ==
    <<114, 101, 112, 108, 105, 101, 115>>

\* format!("https://api.twitter.com/2/users/{}/tweets", id)
UserTweetsEndpoint(id) ==
    UsersEndpoint \o <<47>> \o I64ToString(id) \o <<47, 116, 119, 101, 101, 116, 115>>

\* The request of lookup_users.
LookupUsersRequest(ids, user) ==
    NewWithData("Get", UsersEndpoint,
        QueryData(<<<<IdsKey, CommaSeparated([k \in 1..Len(ids) |-> I64ToString(ids[k])])>>,
                    <<ExpansionsKey, CommaSeparated(user.expansions)>>,
                    <<TweetFieldsKey, CommaSeparated(user.tweet_fields)>>,
                    <<UserFieldsKey, CommaSeparated(user.user_fields)>>>>))

\* lookup_users after apiv2_request: the users are converted.
LookupUsersAfter(api, user) ==
    [sent |-> api.sent,
     value |->
        IF ~api.value.ok THEN api.value
        ELSE IF api.value.value.data # <<>> /\ ~user.from_response
        THEN Err(DeserializeModel, Some(api.value.value.limit_info))
        ELSE Ok([users |-> api.value.value.data,
                 limit_info |-> api.value.value.limit_info])]

\* The execute functions after apiv2_request: the data is returned as field.
ExecuteAfter(api, field) ==
    [sent |-> api.sent,
     value |->
        IF ~api.value.ok THEN api.value
        ELSE Ok([limit_info |-> api.value.value.limit_info]
                @@ (field :> api.value.value.data))]

\* lookup_users::<User, _>(ids): user is what the type User requires and
\* whether its from_response accepts a user of the response.
LookupUsersCall(self, ids, user, env) ==
    LookupUsersAfter(ApiV2Request(self, LookupUsersRequest(ids, user), "users", env), user)

\* A parameter pushed when its string is not empty.
PushNonEmpty(key, value) == IF value # <<>> THEN <<<<key, value>>>> ELSE <<>>

\* A parameter pushed when its option is Some.
PushSome(key, option) == IF option.some THEN <<<<key, option.value>>>> ELSE <<>>

\* LookupTweets::new(ids)
LookupTweetsNew(ids) ==
    [ids |-> CommaSeparated([k \in 1..Len(ids) |-> I64ToString(ids[k])]),
     expansions |-> <<>>, tweet_fields |-> <<>>, user_fields |-> <<>>,
     media_fields |-> <<>>]

\* The request of LookupTweets::execute.
LookupTweetsRequest(self) ==
    LET params == <<<<IdsKey, self.ids>>>>
                  \o PushNonEmpty(ExpansionsKey, self.expansions)
                  \o PushNonEmpty(TweetFieldsKey, self.tweet_fields)
                  \o PushNonEmpty(UserFieldsKey, self.user_fields)
                  \o PushNonEmpty(MediaFieldsKey, self.media_fields)
    IN  NewWithData("Get", TweetsEndpoint, FormData(params))

\* LookupTweets::execute
LookupTweetsCall(self, client, env) ==
    ExecuteAfter(ApiV2Request(client, LookupTweetsRequest(self), "tweets", env), "tweets")

\* Two decimal digits, and four.
Pad2(n) == <<48 + ((n \div 10) % 10), 48 + (n % 10)>>
Pad4(n) == Pad2(n \div 100) \o Pad2(n % 100)

\* DateTime<Utc>::to_rfc3339: 2022-01-02T03:04:05+00:00
ToRfc3339(time) ==
    Pad4(time.year) \o <<45>> \o Pad2(time.month) \o <<45>> \o Pad2(time.day) \o <<84>>
    \o Pad2(time.hour) \o <<58>> \o Pad2(time.minute) \o <<58>> \o Pad2(time.second)
    \o <<43, 48, 48, 58, 48, 48>>

\* UserTimeline::new(id)
UserTimelineNew(id) ==
    [id |-> id, start_time |-> None, end_time |-> None, exclude_retweets |-> FALSE,
     exclude_replies |-> FALSE, max_results |-> None, pagination_token |-> None,
     since_id |-> None, until_id |-> None, expansions |-> <<>>, tweet_fields |-> <<>>,
     user_fields |-> <<>>, media_fields |-> <<>>]

\* u8::clamp(5, 100)
Clamp(n, min, max) == IF n < min THEN min ELSE IF n > max THEN max ELSE n

\* Option::map of to_rfc3339, and of format!("{}", ..) of a number.
MapRfc3339(option) == IF option.some THEN Some(ToRfc3339(option.value)) ELSE None
MapDisplay(option) == IF option.some THEN Some(I64ToString(option.value)) ELSE None

\* The params vector of UserTimeline::execute. The end time is pushed under
\* the key "start_time", as the start time is.
UserTimelineParams(self) ==
    LET excludes == IF self.exclude_retweets /\ self.exclude_replies
                    THEN Some(Retweets \o <<44>> \o Replies)
                    ELSE IF self.exclude_retweets THEN Some(Retweets)
                    ELSE IF self.exclude_replies THEN Some(Replies)
                    ELSE None
    IN  PushSome(StartTimeKey, MapRfc3339(self.start_time))
        \o PushSome(StartTimeKey, MapRfc3339(self.end_time))
        \o PushSome(ExcludeKey, excludes)
        \o PushSome(MaxResultsKey, MapDisplay(self.max_results))
        \o PushSome(PaginationTokenKey, self.pagination_token)
        \o PushSome(SinceIdKey, MapDisplay(self.since_id))
        \o PushSome(UntilIdKey, MapDisplay(self.until_id))
        \o PushNonEmpty(ExpansionsKey, self.expansions)
        \o PushNonEmpty(TweetFieldsKey, self.tweet_fields)
        \o PushNonEmpty(UserFieldsKey, self.user_fields)
        \o PushNonEmpty(MediaFieldsKey, self.media_fields)

\* The request of UserTimeline::execute.
UserTimelineRequest(self) ==
    NewWithData("Get", UserTweetsEndpoint(self.id), FormData(UserTimelineParams(self)))

\* UserTimeline::execute
UserTimelineCall(self, client, env) ==
    ExecuteAfter(ApiV2Request(client, UserTimelineRequest(self), "tweets", env), "tweets")

\* PostTweet::new_with_text(text)
PostTweetNewWithText(text) == [text |-> Some(text)]

\* serde_json::to_vec of a PostTweet made by new_with_text, for a text that
\* needs no escape: {"text":"<text>"}
PostTweetJson(self) ==
    <<123, 34, 116, 101, 120, 116, 34, 58, 34>> \o self.text.value \o <<34, 125>>

\* The request of PostTweet::execute.
PostTweetRequest(self) ==
    NewWithData("Post", TweetsEndpoint, JsonData(PostTweetJson(self)))

\* PostTweet::execute
PostTweetCall(self, client, env) ==
    ExecuteAfter(ApiV2Request(client, PostTweetRequest(self), "tweet", env), "tweet")

\* let r = client.lookup_users::<User, _>(ids).await   (A: AppAuth)
LookupUsers(i, ids, user, env) ==
    /\ Implements(clients[i].type, "AppAuth")
    /\ result' = FlowResult("lookup_users", clients[i], [ids |-> ids, user |-> user], env,
                            LookupUsersCall(clients[i], ids, user, env))
    /\ UNCHANGED <<credVars, paramVars, signVars, threadVars, clients, spent>>

\* let r = lookup.execute(&client).await   (A: AppAuth)
LookupTweetsExecute(i, lookup, env) ==
    /\ Implements(clients[i].type, "AppAuth")
    /\ result' = FlowResult("lookup_tweets", clients[i], lookup, env,
                            LookupTweetsCall(lookup, clients[i], env))
    /\ UNCHANGED <<credVars, paramVars, signVars, threadVars, clients, spent>>

\* let r = timeline.execute(&client).await   (A: AppAuth)
UserTimelineExecute(i, timeline, env) ==
    /\ Implements(clients[i].type, "AppAuth")
    /\ result' = FlowResult("user_timeline", clients[i], timeline, env,
                            UserTimelineCall(timeline, clients[i], env))
    /\ UNCHANGED <<credVars, paramVars, signVars, threadVars, clients, spent>>

\* let r = tweet.execute(&client).await   (A: UserAuth)
PostTweetExecute(i, tweet, env) ==
    /\ Implements(clients[i].type, "UserAuth")
    /\ result' = FlowResult("post_tweet", clients[i], tweet, env,
                            PostTweetCall(tweet, clients[i], env))
    /\ UNCHANGED <<credVars, paramVars, signVars, threadVars, clients, spent>>


(***************************************************************************)
(* SpecApi: one call of an endpoint, of get_request_token or of            *)
(* get_access_token, on a client of each credential type, with every       *)
(* answer of the transport.                                                *)
(***************************************************************************)

\* AsyncClient::new(BearerToken::new("AAAA"), ..), and one whose token holds
\* a line feed: "A\nB".
BearerClients ==
    {Client("BearerToken", BearerTokenNew(<<65, 65, 65, 65>>)),
     Client("BearerToken", BearerTokenNew(<<65, 10, 66>>))}

\* The client of the documented credential.
UserClient ==
    Client("OAuth10a", New(DocApiKey, DocApiKeySecret, DocAccessToken,
                           DocAccessTokenSecret))

ApiClients == BearerClients \cup {UserClient} \cup TemporaryClients(AppClient)

\* The arguments of lookup_users: no id and a type User that requires
\* nothing, or the ids 1 and 20 and a type that requires an expansion and
\* fields and whose from_response fails.
UsersArgs ==
    {[ids |-> <<>>,
      user |-> [expansions |-> <<>>, tweet_fields |-> <<>>, user_fields |-> <<>>,
                from_response |-> TRUE]],
     [ids |-> <<1, 20>>,
      user |-> [expansions |-> <<<<112, 105, 110, 110, 101, 100, 95, 116, 119, 101, 101, 116, 95, 105, 100>>>>,
                tweet_fields |-> <<<<105, 100>>, <<116, 101, 120, 116>>>>,
                user_fields |-> <<<<105, 100>>, <<110, 97, 109, 101>>>>,
                from_response |-> FALSE]]}

\* LookupTweets::new([1, 20]), and with .expansions([AuthorId]) and
\* .tweet_fields([Id, Text]).
LookupSamples ==
    {LookupTweetsNew(<<1, 20>>),
     [LookupTweetsNew(<<7>>) EXCEPT !.expansions = <<97, 117, 116, 104, 111, 114, 95, 105, 100>>,
                                    !.tweet_fields = CommaSeparated(<<<<105, 100>>, <<116, 101, 120, 116>>>>)]}

\* 2022-01-02T03:04:05Z and 2023-11-12T13:14:15Z
TimeSamples ==
    <<[year |-> 2022, month |-> 1, day |-> 2, hour |-> 3, minute |-> 4, second |-> 5],
      [year |-> 2023, month |-> 11, day |-> 12, hour |-> 13, minute |-> 14, second |-> 15]>>

\* UserTimeline::new(7); with .start_time(..).end_time(..); with
\* .end_time(..) alone; and with .exclude_replies().max_results(200)
\* .pagination_token("p1").since_id(3).until_id(9).expansions([AuthorId])
\* .tweet_fields([Id, Text]).user_fields([Id]).media_fields([Url]).
TimelineSamples ==
    {UserTimelineNew(7),
     [UserTimelineNew(7) EXCEPT !.start_time = Some(TimeSamples[1]),
                                !.end_time = Some(TimeSamples[2])],
     [UserTimelineNew(7) EXCEPT !.end_time = Some(TimeSamples[2])],
     [UserTimelineNew(7) EXCEPT !.exclude_replies = TRUE,
                                !.max_results = Some(Clamp(200, 5, 100)),
                                !.pagination_token = Some(<<112, 49>>),
                                !.since_id = Some(3),
                                !.until_id = Some(9),
                                !.expansions = CommaSeparated(<<<<97, 117, 116, 104, 111, 114, 95, 105, 100>>>>),
                                !.tweet_fields = CommaSeparated(<<<<105, 100>>, <<116, 101, 120, 116>>>>),
                                !.user_fields = CommaSeparated(<<<<105, 100>>>>),
                                !.media_fields = CommaSeparated(<<<<117, 114, 108>>>>)]}

\* PostTweet::new_with_text("hi")
TweetSamples == {PostTweetNewWithText(<<104, 105>>)}

\* The answers of the transport to an API call.
ApiTransports ==
    {[stage |-> "build"], [stage |-> "execute"]}
    \cup {[stage |-> "response", status |-> status, headers |-> headers,
           read |-> read, body |-> ApiBodies[b]] :
            status \in {200, 401}, headers \in HeaderSets, read \in BOOLEAN,
            b \in DOMAIN ApiBodies}

\* The calls a client signs.
ApiCallsOf(client) ==
    IF client.type = "OAuth10a"
    THEN {<<client.auth, request>> :
            request \in {LookupUsersRequest(arg.ids, arg.user) : arg \in UsersArgs}
                        \cup {LookupTweetsRequest(lookup) : lookup \in LookupSamples}
                        \cup {UserTimelineRequest(timeline) : timeline \in TimelineSamples}
                        \cup {PostTweetRequest(tweet) : tweet \in TweetSamples}
                        \cup {RequestTokenRequest(url) : url \in FlowCallbackUrls}}
    ELSE IF client.type = "OAuth10aRequest"
    THEN {<<client.auth, AccessTokenRequest(v)>> : v \in FlowVerifiers}
    ELSE {}

InitApi ==
    /\ CredIdle
    /\ ParamIdle
    /\ ThreadIdle
    /\ auth = NoCred
    /\ clock = DocTimestamp
    /\ rng = 0
    /\ changed = FALSE
    /\ last = NoLast
    /\ \E client \in ApiClients :
        /\ clients = <<client>>
        /\ sigs = FlowSigTable(ApiCallsOf(client))
    /\ spent = {}
    /\ result = NoResult

\* The call is the only one of the run.
NextApi ==
    \/ \E arg \in UsersArgs, env \in ApiTransports :
        result = NoResult /\ LookupUsers(1, arg.ids, arg.user, env)
    \/ \E lookup \in LookupSamples, env \in ApiTransports :
        result = NoResult /\ LookupTweetsExecute(1, lookup, env)
    \/ \E timeline \in TimelineSamples, env \in ApiTransports :
        result = NoResult /\ UserTimelineExecute(1, timeline, env)
    \/ \E tweet \in TweetSamples, env \in ApiTransports :
        result = NoResult /\ PostTweetExecute(1, tweet, env)
    \/ \E callback_url \in FlowCallbackUrls, env \in ApiTransports :
        result = NoResult /\ GetRequestToken(1, callback_url, env)
    \/ \E verifier \in FlowVerifiers, env \in ApiTransports :
        result = NoResult /\ GetAccessToken(1, verifier, env)

SpecApi == InitApi /\ [][NextApi]_vars


\* The request the call recorded in result was made with.
CallRequest ==
    CASE result.fn = "lookup_users" ->
            LookupUsersRequest(result.arg.ids, result.arg.user)
      [] result.fn = "lookup_tweets" -> LookupTweetsRequest(result.arg)
      [] result.fn = "user_timeline" -> UserTimelineRequest(result.arg)
      [] result.fn = "post_tweet" -> PostTweetRequest(result.arg)
      [] result.fn = "get_request_token" -> RequestTokenRequest(result.arg)
      [] result.fn = "get_access_token" -> AccessTokenRequest(result.arg)

\* C25: when the Authorization string of the call is not a valid header
\* value, the call returns the error BadAuthHeader without rate-limit
\* information and no HTTP request was sent; and every HTTP request that was
\* sent carries exactly that string, which is then a valid header value.
C25_BadAuthHeaderSurfaced ==
    result.fn # "none" =>
        /\ ~HeaderValueFromStr(AuthHeaderOf(result.self, CallRequest)) =>
            /\ result.value = Err(BadAuthHeader, None)
            /\ result.sent = <<>>
        /\ \A k \in DOMAIN result.sent :
            /\ HeaderValueFromStr(AuthHeaderOf(result.self, CallRequest))
            /\ result.sent[k].authorization = AuthHeaderOf(result.self, CallRequest)

\* lookup_users on the client of the token "A\nB", answered by a response:
\* BadAuthHeader is returned and nothing was sent.
C25_Witness ==
    /\ result.fn = "lookup_users"
    /\ result.self.type = "BearerToken"
    /\ \E k \in DOMAIN result.self.auth.auth_header :
        result.self.auth.auth_header[k] = 10
    /\ result.env.stage = "response"
    /\ result.value = Err(BadAuthHeader, None)
    /\ result.sent = <<>>


\* The call recorded in result went through apiv2_request and a response
\* arrived for it.
ApiAnswered ==
    /\ result.fn \in {"lookup_users", "lookup_tweets", "user_timeline", "post_tweet"}
    /\ result.sent # <<>>
    /\ result.env.stage = "response"

\* What serde_json makes of the body of the response, for the type the
\* call asks for; nothing when the body could not be read.
ApiParsed ==
    IF ~result.env.read THEN None
    ELSE FromSlice(result.env.body,
                   CASE result.fn = "lookup_users" -> "users"
                     [] result.fn = "post_tweet" -> "tweet"
                     [] OTHER -> "tweets")

\* The errors list of the response, empty when there is none.
ApiErrors == IF ApiParsed.some THEN ApiParsed.value.errors ELSE <<>>

\* C28 as stated: Ok only for a 2XX status, an empty errors list and data
\* present; ErrorResponse with the status and the errors whenever the status
\* is not 2XX or the errors list is not empty; NoData when neither holds and
\* the response has no data; every error carries the LimitInfo of the
\* response.
C28_ErrorResponseWheneverNot2XX ==
    ApiAnswered =>
        /\ result.value.ok =>
            /\ IsSuccess(result.env.status)
            /\ ApiErrors = <<>>
            /\ ApiParsed.some /\ ApiParsed.value.data.some
        /\ (~IsSuccess(result.env.status) \/ ApiErrors # <<>>) =>
            /\ ~result.value.ok
            /\ result.value.kind = ErrorResponse(result.env.status, ApiErrors)
        /\ (/\ IsSuccess(result.env.status)
            /\ ApiParsed.some
            /\ ApiErrors = <<>>
            /\ ~ApiParsed.value.data.some) =>
            /\ ~result.value.ok
            /\ result.value.kind = NoData
        /\ ~result.value.ok =>
            result.value.limit_info = Some(FromHeaders(result.env.headers))

\* C28, amended: Ok only for a 2XX status, an empty errors list and data
\* present. A body that cannot be read is a Transfer error and a body that
\* is not an ApiV2Response is InvalidResponse, whatever the status. Once the
\* body is read and deserialised: ErrorResponse with the status and the
\* errors whenever the status is not 2XX or the errors list is not empty,
\* and NoData when neither holds and the response has no data. Every error
\* carries the LimitInfo of the response.
C28_ApiV2Outcomes ==
    ApiAnswered =>
        /\ result.value.ok =>
            /\ IsSuccess(result.env.status)
            /\ ApiErrors = <<>>
            /\ ApiParsed.some /\ ApiParsed.value.data.some
        /\ ~result.env.read =>
            /\ ~result.value.ok
            /\ result.value.kind = Transfer("bytes")
        /\ (result.env.read /\ ~ApiParsed.some) =>
            /\ ~result.value.ok
            /\ result.value.kind = InvalidResponse
        /\ (/\ result.env.read
            /\ ApiParsed.some
            /\ ~IsSuccess(result.env.status) \/ ApiErrors # <<>>) =>
            /\ ~result.value.ok
            /\ result.value.kind = ErrorResponse(result.env.status, ApiErrors)
        /\ (/\ result.env.read
            /\ ApiParsed.some
            /\ IsSuccess(result.env.status)
            /\ ApiErrors = <<>>
            /\ ~ApiParsed.value.data.some) =>
            /\ ~result.value.ok
            /\ result.value.kind = NoData
        /\ ~result.value.ok =>
            result.value.limit_info = Some(FromHeaders(result.env.headers))

\* LookupTweets::execute answered 401 with {"errors":[{"message":"x"}]} and
\* the rate-limit headers: ErrorResponse with 401, the error and the
\* LimitInfo of the headers.
C28_Witness ==
    /\ result.fn = "lookup_tweets"
    /\ result.env.stage = "response"
    /\ result.env.status = 401
    /\ result.env.read
    /\ result.env.body = ApiBodies[5]
    /\ result.env.headers.limit = Some(<<49, 53>>)
    /\ ~result.value.ok
    /\ result.value.kind = ErrorResponse(401, <<"x">>)
    /\ result.value.limit_info.some
    /\ Decoded(result.value.limit_info.value.limit) = Some(15)


\* C22: a temporary credential (OAuth10aRequest) is used for
\* get_access_token only; a BearerToken is used for the app-context
\* endpoints (lookup_users, LookupTweets, UserTimeline) only, and each of
\* them can be called with it; PostTweet and get_request_token are called
\* with an OAuth10a only.
C22_GatedByCredentialKind ==
    /\ result.fn # "none" =>
        result.self.type \in
            CASE result.fn \in {"lookup_users", "lookup_tweets", "user_timeline"} ->
                    {"BearerToken", "OAuth10a"}
              [] result.fn \in {"post_tweet", "get_request_token"} -> {"OAuth10a"}
              [] result.fn = "get_access_token" -> {"OAuth10aRequest"}
    /\ (result = NoResult /\ clients[1].type = "BearerToken") =>
        /\ ENABLED (\E arg \in UsersArgs, env \in ApiTransports :
                        LookupUsers(1, arg.ids, arg.user, env))
        /\ ENABLED (\E lookup \in LookupSamples, env \in ApiTransports :
                        LookupTweetsExecute(1, lookup, env))
        /\ ENABLED (\E timeline \in TimelineSamples, env \in ApiTransports :
                        UserTimelineExecute(1, timeline, env))

\* UserTimeline::execute on a client of a BearerToken returned the tweets.
C22_Witness ==
    /\ result.fn = "user_timeline"
    /\ result.self.type = "BearerToken"
    /\ result.value.ok


\* "end_time"
EndTimeKey ==
    <<101, 110, 100, 95, 116, 105, 109, 101>>

\* The number of parameters named key in the form body of the request sent.
SentNamed(key) ==
    Cardinality({k \in DOMAIN FormDecoder(result.sent[1].body) :
                    FormDecoder(result.sent[1].body)[k][1] = key})

\* One parameter when the option is set, none when it is not.
OnceIf(set) == IF set THEN 1 ELSE 0

\* C29: the request UserTimeline::execute sends holds, for each option that
\* was set, exactly one parameter under the option's own name (start_time,
\* end_time, exclude, max_results, pagination_token, since_id, until_id,
\* expansions, tweet.fields, user.fields, media.fields), and no parameter
\* under the name of an option that was not set.
C29_OptionsUnderOwnNames ==
    (result.fn = "user_timeline" /\ result.sent # <<>>) =>
        /\ SentNamed(StartTimeKey) = OnceIf(result.arg.start_time.some)
        /\ SentNamed(EndTimeKey) = OnceIf(result.arg.end_time.some)
        /\ SentNamed(ExcludeKey) =
            OnceIf(result.arg.exclude_retweets \/ result.arg.exclude_replies)
        /\ SentNamed(MaxResultsKey) = OnceIf(result.arg.max_results.some)
        /\ SentNamed(PaginationTokenKey) = OnceIf(result.arg.pagination_token.some)
        /\ SentNamed(SinceIdKey) = OnceIf(result.arg.since_id.some)
        /\ SentNamed(UntilIdKey) = OnceIf(result.arg.until_id.some)
        /\ SentNamed(ExpansionsKey) = OnceIf(result.arg.expansions # <<>>)
        /\ SentNamed(TweetFieldsKey) = OnceIf(result.arg.tweet_fields # <<>>)
        /\ SentNamed(UserFieldsKey) = OnceIf(result.arg.user_fields # <<>>)
        /\ SentNamed(MediaFieldsKey) = OnceIf(result.arg.media_fields # <<>>)

=============================================================================
